---- MODULE Spec2Model ----
(***************************************************************************)
(* Model of the invoice generator: the date helpers, the derivation of     *)
(* invoice metadata from a file name, and the persistence layer with the   *)
(* invoice controller on top of it.                                        *)
(*                                                                         *)
(* Strings of the program are sequences of one-character strings, so that  *)
(* parsing and formatting are computed character by character.             *)
(***************************************************************************)
EXTENDS Integers, Sequences, FiniteSets, TLC

(***************************************************************************)
(* Characters and small string helpers                                     *)
(***************************************************************************)
Digits == <<"0", "1", "2", "3", "4", "5", "6", "7", "8", "9">>

DigitChars == {Digits[i] : i \in 1..10}

IsDigit(c) == c \in DigitChars

DigitVal(c) == (CHOOSE i \in 1..10 : Digits[i] = c) - 1

DigitChar(n) == Digits[n + 1]

RECURSIVE StrToNat(_)
StrToNat(s) ==
    IF s = <<>> THEN 0
    ELSE 10 * StrToNat(SubSeq(s, 1, Len(s) - 1)) + DigitVal(s[Len(s)])

\* str.zfill(2): pad on the left with "0" up to width 2; a leading sign stays
\* in front of the padding.
zfill2(s) ==
    IF Len(s) >= 2 THEN s
    ELSE IF Len(s) = 1 THEN
        IF s[1] \in {"+", "-"} THEN <<s[1], "0">> ELSE <<"0", s[1]>>
    ELSE <<"0", "0">>

\* f"{n:02d}" for 0 <= n <= 99
Fmt02d(n) == <<DigitChar(n \div 10), DigitChar(n % 10)>>

\* f"{n}" / %Y for a four-digit year
Fmt4d(n) ==
    <<DigitChar(n \div 1000), DigitChar((n \div 100) % 10),
      DigitChar((n \div 10) % 10), DigitChar(n % 10)>>

\* positions of character c in s
Positions(s, c) == {i \in 1..Len(s) : s[i] = c}

\* str.split(c) for a single-character separator
RECURSIVE Split(_, _)
Split(s, c) ==
    IF Positions(s, c) = {} THEN <<s>>
    ELSE LET p == CHOOSE i \in Positions(s, c) :
                      \A j \in Positions(s, c) : i <= j
         IN <<SubSeq(s, 1, p - 1)>> \o Split(SubSeq(s, p + 1, Len(s)), c)

(***************************************************************************)
(* The proleptic Gregorian calendar of datetime                            *)
(***************************************************************************)
IsLeapNoCentury(y) == y % 4 = 0

IsLeap(y) == y % 4 = 0 /\ (y % 100 # 0 \/ y % 400 = 0)

DaysInMonthTable == <<31, 28, 31, 30, 31, 30, 31, 31, 30, 31, 30, 31>>

DaysInMonth(y, m) ==
    IF m = 2 /\ IsLeap(y) THEN 29 ELSE DaysInMonthTable[m]

DaysBeforeYear(y) ==
    (y - 1) * 365 + ((y - 1) \div 4) - ((y - 1) \div 100) + ((y - 1) \div 400)

RECURSIVE DaysBeforeMonth(_, _)
DaysBeforeMonth(y, m) ==
    IF m = 1 THEN 0 ELSE DaysBeforeMonth(y, m - 1) + DaysInMonth(y, m - 1)

\* date.toordinal(): 01/01/0001 is day 1
ToOrdinal(dt) == DaysBeforeYear(dt.y) + DaysBeforeMonth(dt.y, dt.m) + dt.d

\* date.fromordinal(): the 400/100/4/1 year cycle decomposition
FromOrdinal(n) ==
    LET n0   == n - 1
        n400 == n0 \div 146097
        r400 == n0 % 146097
        n100 == r400 \div 36524
        r100 == r400 % 36524
        n4   == r100 \div 1461
        r4   == r100 % 1461
        n1   == r4 \div 365
        r1   == r4 % 365
        year == n400 * 400 + 1 + n100 * 100 + n4 * 4 + n1
    IN IF n1 = 4 \/ n100 = 4
       THEN [y |-> year - 1, m |-> 12, d |-> 31]
       ELSE LET mm == CHOOSE k \in 1..12 :
                          /\ DaysBeforeMonth(year, k) <= r1
                          /\ r1 < DaysBeforeMonth(year, k) + DaysInMonth(year, k)
            IN [y |-> year, m |-> mm, d |-> r1 - DaysBeforeMonth(year, mm) + 1]

(***************************************************************************)
(* datetime.strptime(s, "%m/%d/%Y") and strftime                           *)
(***************************************************************************)
\* %m : 1[0-2] | 0[1-9] | [1-9]
MatchMonth(f) ==
    \/ Len(f) = 1 /\ IsDigit(f[1]) /\ f[1] # "0"
    \/ Len(f) = 2 /\ f[1] = "1" /\ f[2] \in {"0", "1", "2"}
    \/ Len(f) = 2 /\ f[1] = "0" /\ IsDigit(f[2]) /\ f[2] # "0"

\* %d : 3[0-1] | [1-2]\d | 0[1-9] | [1-9] | " "[1-9]
MatchDay(f) ==
    \/ Len(f) = 1 /\ IsDigit(f[1]) /\ f[1] # "0"
    \/ Len(f) = 2 /\ f[1] = "3" /\ f[2] \in {"0", "1"}
    \/ Len(f) = 2 /\ f[1] \in {"1", "2"} /\ IsDigit(f[2])
    \/ Len(f) = 2 /\ f[1] \in {"0", " "} /\ IsDigit(f[2]) /\ f[2] # "0"

\* %Y : \d\d\d\d
MatchYear(f) == Len(f) = 4 /\ \A i \in 1..4 : IsDigit(f[i])

FieldVal(f) == StrToNat(SelectSeq(f, IsDigit))

NoDate == [y |-> 0, m |-> 0, d |-> 0]

\* The parsed date, or NoDate when strptime raises ValueError: the string
\* does not match the format, or the fields are not a calendar date.
strptime(s) ==
    LET parts == Split(s, "/")
    IN IF Len(parts) # 3 THEN NoDate
       ELSE IF ~(MatchMonth(parts[1]) /\ MatchDay(parts[2]) /\ MatchYear(parts[3]))
       THEN NoDate
       ELSE LET y == FieldVal(parts[3])
                m == FieldVal(parts[1])
                d == FieldVal(parts[2])
            IN IF y < 1 \/ d > DaysInMonth(y, m) THEN NoDate
               ELSE [y |-> y, m |-> m, d |-> d]

\* strftime("%m/%d/%Y")
strftime_display(dt) == Fmt02d(dt.m) \o <<"/">> \o Fmt02d(dt.d) \o <<"/">> \o Fmt4d(dt.y)

\* strftime("%Y-%m-%d")
strftime_storage(dt) == Fmt4d(dt.y) \o <<"-">> \o Fmt02d(dt.m) \o <<"-">> \o Fmt02d(dt.d)

\* datetime + timedelta(days = n)
AddDays(dt, n) == FromOrdinal(ToOrdinal(dt) + n)

(***************************************************************************)
(* Results of functions that may raise: ok, the value, the error message   *)
(***************************************************************************)
\* An error message is the sequence of its parts, outermost wrapper first:
\* f"Error importing invoice from files: {e}" is <<"Error importing ...">> \o e.
Ok(v) == [ok |-> TRUE, val |-> v, err |-> <<>>]

Raise(e) == [ok |-> FALSE, val |-> <<>>, err |-> e]

Contains(err, part) == \E i \in 1..Len(err) : err[i] = part

parse_date_safely(date_str) ==
    LET parsed == strptime(date_str)
    IN IF parsed = NoDate THEN Raise(<<"Invalid date format">>)
       ELSE Ok(strftime_storage(parsed))

parse_date_to_display(date_str) ==
    LET parsed == strptime(date_str)
    IN IF parsed = NoDate THEN Raise(<<"Invalid date format">>)
       ELSE Ok(strftime_display(parsed))

calculate_due_date(invoice_date_str, days_out) ==
    LET invoice_date == strptime(invoice_date_str)
    IN IF invoice_date = NoDate THEN Raise(<<"Invalid invoice date">>)
       ELSE Ok(strftime_display(AddDays(invoice_date, days_out)))

(***************************************************************************)
(* Invoice metadata from the file name                                     *)
(***************************************************************************)
Prefix == <<"i", "n", "v", "o", "i", "c", "e", "-", "d", "a", "t", "a", "-">>

\* the year written into the f-strings of the metadata function
LiteralYear == 2025

startswith(s, p) == Len(s) >= Len(p) /\ SubSeq(s, 1, Len(p)) = p

\* str.replace(old, ""): every non-overlapping occurrence, left to right
RECURSIVE RemoveAll(_, _)
RemoveAll(s, old) ==
    IF Len(s) < Len(old) THEN s
    ELSE IF SubSeq(s, 1, Len(old)) = old
         THEN RemoveAll(SubSeq(s, Len(old) + 1, Len(s)), old)
         ELSE <<s[1]>> \o RemoveAll(Tail(s), old)

LastPos(s, c) == CHOOSE i \in Positions(s, c) : \A j \in Positions(s, c) : j <= i

\* os.path.basename
basename(path) ==
    IF Positions(path, "/") = {} THEN path
    ELSE SubSeq(path, LastPos(path, "/") + 1, Len(path))

\* os.path.splitext(name)[0] for a name without directory part: cut at the
\* last dot unless only dots come before it
splitext_root(name) ==
    IF Positions(name, ".") = {} THEN name
    ELSE LET dot == LastPos(name, ".")
         IN IF \E i \in 1..(dot - 1) : name[i] # "."
            THEN SubSeq(name, 1, dot - 1)
            ELSE name

NoMetadata == [invoice_number |-> <<>>, invoice_date |-> <<>>, due_date |-> <<>>]

RaiseMeta(e) == [ok |-> FALSE, val |-> NoMetadata, err |-> e]

\* now is datetime.now(), read by the fallback branch
generate_invoice_metadata_from_filename(invoice_data_file, now) ==
    LET base_name == splitext_root(basename(invoice_data_file))
    IN IF startswith(base_name, Prefix)
       THEN LET date_part == RemoveAll(base_name, Prefix)
                parts     == Split(date_part, "-")
            IN IF Len(parts) # 2
               THEN RaiseMeta(<<"Error generating invoice metadata",
                                "Invalid filename format">>)
               ELSE LET month == parts[1]
                        day   == parts[2]
                        invoice_number ==
                            Fmt4d(LiteralYear) \o <<".">> \o zfill2(month)
                                \o <<".">> \o zfill2(day)
                        invoice_date ==
                            zfill2(month) \o <<"/">> \o zfill2(day)
                                \o <<"/">> \o Fmt4d(LiteralYear)
                        due == calculate_due_date(invoice_date, 30)
                    IN IF ~due.ok
                       THEN RaiseMeta(<<"Error generating invoice metadata",
                                        "Invalid filename format">>)
                       ELSE Ok([invoice_number |-> invoice_number,
                                invoice_date   |-> invoice_date,
                                due_date       |-> due.val])
       ELSE LET invoice_number ==
                    Fmt4d(LiteralYear) \o <<".">> \o Fmt02d(now.m)
                        \o <<".">> \o Fmt02d(now.d)
                invoice_date == strftime_display(now)
                due == calculate_due_date(invoice_date, 30)
            IN IF ~due.ok
               THEN RaiseMeta(<<"Error generating invoice metadata">> \o due.err)
               ELSE Ok([invoice_number |-> invoice_number,
                        invoice_date   |-> invoice_date,
                        due_date       |-> due.val])

(***************************************************************************)
(* The persistence layer.  db is the content of the three tables; every    *)
(* operation maps db and its arguments to the new db and the outcome out:  *)
(* the returned id, or the exception class exc with its message err.       *)
(***************************************************************************)
HAVELICK_SOLUTIONS_VENDOR_ID == 1

Returns(v) == [ok |-> TRUE, val |-> v, exc |-> "none", err |-> <<>>]

Raises(exc, err) == [ok |-> FALSE, val |-> 0, exc |-> exc, err |-> err]

\* INTEGER PRIMARY KEY of a table from which nothing is deleted
NextRowId(rows) == Len(rows) + 1

\* INSERT ... WHERE NOT EXISTS (SELECT 1 FROM customers WHERE name = ?)
Customer_create_if_new(db, name, address) ==
    IF \E i \in 1..Len(db.customers) : db.customers[i].name = name
    THEN [db  |-> db,
          out |-> Returns((CHOOSE r \in {db.customers[i] : i \in 1..Len(db.customers)} :
                              r.name = name).id)]
    ELSE [db  |-> [db EXCEPT !.customers =
                     Append(@, [id |-> NextRowId(db.customers), name |-> name,
                                address |-> address])],
          out |-> Returns(NextRowId(db.customers))]

Customer_create(db, name, address) ==
    LET customer_id == NextRowId(db.customers)
    IN [db  |-> [db EXCEPT !.customers =
                    Append(@, [id |-> customer_id, name |-> name,
                               address |-> address])],
        out |-> Returns(customer_id)]

NoCustomer == [id |-> 0, name |-> "", address |-> ""]

\* lower() of the customer names in use
Lower(name) == IF name = "Acme Co" THEN "acme co" ELSE name

MatchesNameIgnoringCase(row_name, name) == Lower(row_name) = Lower(name)

\* WHERE name = ? : the default BINARY collation, an exact comparison
MatchesName(row_name, name) == row_name = name

\* fetchone() of the scan of the table in rowid order
Customer_get_by_name(db, name) ==
    LET hits == {i \in 1..Len(db.customers) : MatchesName(db.customers[i].name, name)}
    IN IF hits = {} THEN NoCustomer
       ELSE db.customers[CHOOSE i \in hits : \A j \in hits : i <= j]

\* UPDATE customers SET address = ? WHERE id = ?
UpdateAddress(rows, id, address) ==
    [i \in 1..Len(rows) |->
        IF rows[i].id = id THEN [rows[i] EXCEPT !.address = address] ELSE rows[i]]

Customer_upsert_reinsert(db, name, address) ==
    LET customer == Customer_get_by_name(db, name)
        kept     == SelectSeq(db.customers, LAMBDA r : r.id # customer.id)
        new_id   == NextRowId(db.customers)
    IN IF customer # NoCustomer
       THEN [db  |-> [db EXCEPT !.customers =
                        Append(kept, [id |-> new_id, name |-> name,
                                      address |-> address])],
             out |-> Returns(new_id)]
       ELSE Customer_create(db, name, address)

\* UPDATE customers SET address = ? WHERE name = ?
Customer_upsert_by_name(db, name, address) ==
    LET customer == Customer_get_by_name(db, name)
    IN IF customer # NoCustomer
       THEN [db  |-> [db EXCEPT !.customers =
                        [i \in 1..Len(@) |->
                            IF @[i].name = name
                            THEN [@[i] EXCEPT !.address = address]
                            ELSE @[i]]],
             out |-> Returns(customer.id)]
       ELSE Customer_create(db, name, address)

Customer_upsert(db, name, address) ==
    LET customer == Customer_get_by_name(db, name)
    IN IF customer # NoCustomer
       THEN [db  |-> [db EXCEPT !.customers =
                        UpdateAddress(@, customer.id, address)],
             out |-> Returns(customer.id)]
       ELSE Customer_create(db, name, address)

NoUniqueViolation(rows, invoice_number) == FALSE

\* invoice_number TEXT UNIQUE NOT NULL
UniqueViolation(rows, invoice_number) ==
    \E i \in 1..Len(rows) : rows[i].invoice_number = invoice_number

InvoiceRow(id, details) ==
    [id             |-> id,
     invoice_number |-> details.invoice_number,
     customer_id    |-> details.customer_id,
     vendor_id      |-> HAVELICK_SOLUTIONS_VENDOR_ID,
     invoice_date   |-> details.invoice_date,
     due_date       |-> details.due_date,
     total_amount   |-> details.total_amount]

Invoice_create_or_replace(db, details) ==
    IF UniqueViolation(db.invoices, details.invoice_number)
    THEN LET i == CHOOSE k \in 1..Len(db.invoices) :
                     db.invoices[k].invoice_number = details.invoice_number
         IN [db  |-> [db EXCEPT !.invoices[i] = InvoiceRow(db.invoices[i].id, details)],
             out |-> Returns(db.invoices[i].id)]
    ELSE [db  |-> [db EXCEPT !.invoices =
                     Append(@, InvoiceRow(NextRowId(db.invoices), details))],
          out |-> Returns(NextRowId(db.invoices))]

Invoice_create(db, details) ==
    IF UniqueViolation(db.invoices, details.invoice_number)
    THEN [db  |-> db,
          out |-> Raises("IntegrityError",
                         <<"UNIQUE constraint failed: invoices.invoice_number">>)]
    ELSE [db  |-> [db EXCEPT !.invoices =
                     Append(@, InvoiceRow(NextRowId(db.invoices), details))],
          out |-> Returns(NextRowId(db.invoices))]

\* returns None
InvoiceItem_add(db, item) ==
    [db  |-> [db EXCEPT !.invoice_items =
                Append(@, [id          |-> NextRowId(db.invoice_items),
                           invoice_id  |-> item.invoice_id,
                           work_date   |-> item.work_date,
                           description |-> item.description,
                           quantity    |-> item.quantity,
                           rate        |-> item.rate,
                           amount      |-> item.amount])],
     out |-> Returns(0)]

(***************************************************************************)
(* The queries.  A query leaves db alone; it is modelled by the set of the *)
(* values it can return, one for every order SQLite may give to rows with  *)
(* equal sort keys.                                                        *)
(***************************************************************************)
\* Python's None
None == [none |-> TRUE]

\* the vendors table: the row init_database pre-populates, never changed
Vendors ==
    <<[id |-> 1, name |-> "Havelick Software Solutions, LLC",
       address |-> "7815 Robinson Way\nArvada CO 80004",
       email |-> "tristan@havelick.com", phone |-> "303-475-7244"]>>

\* the byte of a character of a stored date or number
Ord(c) ==
    IF IsDigit(c) THEN 48 + DigitVal(c)
    ELSE CASE c = "-" -> 45 [] c = "." -> 46 [] c = "/" -> 47 [] OTHER -> 32

\* a < b for TEXT values under the BINARY collation: memcmp, then the length
RECURSIVE TextLess(_, _)
TextLess(a, b) ==
    IF b = <<>> THEN FALSE
    ELSE IF a = <<>> THEN TRUE
    ELSE IF a[1] = b[1] THEN TextLess(Tail(a), Tail(b))
    ELSE Ord(a[1]) < Ord(b[1])

\* detect_types=PARSE_DECLTYPES: a value read from a DATE column goes through
\* datetime.date(*map(int, val.split(b"-")))
convert_date(s) ==
    LET parts == Split(s, "-")
    IN IF Len(parts) # 3 THEN Raise(<<"TypeError">>)
       ELSE IF \E k \in 1..3 : parts[k] = <<>> \/ \E i \in 1..Len(parts[k]) :
                                                    ~IsDigit(parts[k][i])
       THEN Raise(<<"ValueError">>)
       ELSE LET y == StrToNat(parts[1])
                m == StrToNat(parts[2])
                d == StrToNat(parts[3])
            IN IF y < 1 \/ m \notin 1..12 THEN Raise(<<"ValueError">>)
               ELSE IF d \notin 1..DaysInMonth(y, m) THEN Raise(<<"ValueError">>)
               ELSE Ok([y |-> y, m |-> m, d |-> d])

\* ORDER BY key: the orders of the row numbers hits in which no row comes
\* before a row of a smaller key; the first row is one of the smallest key
RECURSIVE Ascending(_, _)
Ascending(hits, key) ==
    IF hits = {} THEN {<<>>}
    ELSE UNION {{<<h>> \o p : p \in Ascending(hits \ {h}, key)}
                  : h \in {h \in hits :
                              \A g \in hits : ~TextLess(key[g], key[h])}}

\* ORDER BY key DESC
RECURSIVE Descending(_, _)
Descending(hits, key) ==
    IF hits = {} THEN {<<>>}
    ELSE UNION {{<<h>> \o p : p \in Descending(hits \ {h}, key)}
                  : h \in {h \in hits :
                              \A g \in hits : ~TextLess(key[h], key[g])}}

\* FROM invoices i JOIN customers c ON i.customer_id = c.id
\*                 JOIN vendors v ON i.vendor_id = v.id : the joined rows
\* of invoice row number k, as <<customer row number, vendor row number>>
JoinedWithAnyCustomer(db, k) ==
    {<<c, v>> \in (1..Len(db.customers)) \X (1..Len(Vendors)) :
        Vendors[v].id = db.invoices[k].vendor_id}

JoinedWithVendor(db, k) ==
    {<<c, v>> \in (1..Len(db.customers)) \X (1..Len(Vendors)) :
        /\ db.customers[c].id = db.invoices[k].customer_id
        /\ Vendors[v].id = db.invoices[k].vendor_id}

ItemOfAnyInvoice(row, invoice_id) == TRUE

\* WHERE invoice_id = ?
ItemOfInvoice(row, invoice_id) == row.invoice_id = invoice_id

ItemDict(row) ==
    [date |-> convert_date(row.work_date).val, description |-> row.description,
     quantity |-> row.quantity, rate |-> row.rate, amount |-> row.amount]

\* Invoice.get_data and InvoiceController.get_invoice_data: the same code
Invoice_get_data(db, invoice_id) ==
    LET found == {<<k, j>> \in (1..Len(db.invoices))
                               \X ((1..Len(db.customers)) \X (1..Len(Vendors))) :
                     /\ db.invoices[k].id = invoice_id
                     /\ j \in JoinedWithVendor(db, k)}
    IN IF found = {} THEN {Returns(None)}
       ELSE LET first == CHOOSE f \in found : TRUE
                i  == db.invoices[first[1]]
                c  == db.customers[first[2][1]]
                v  == Vendors[first[2][2]]
                hits == {n \in 1..Len(db.invoice_items) :
                            ItemOfInvoice(db.invoice_items[n], invoice_id)}
            IN IF \/ ~convert_date(i.invoice_date).ok
                  \/ ~convert_date(i.due_date).ok
                  \/ \E n \in hits : ~convert_date(db.invoice_items[n].work_date).ok
               THEN {Raises("ValueError", <<"invalid date">>)}
               ELSE
               {Returns(
                [invoice_number |-> i.invoice_number,
                 invoice_date   |-> convert_date(i.invoice_date).val,
                 due_date       |-> convert_date(i.due_date).val,
                 total          |-> i.total_amount,
                 company        |-> [name |-> v.name, address |-> v.address,
                                     email |-> v.email, phone |-> v.phone],
                 client         |-> [name |-> c.name, address |-> c.address],
                 payment_terms  |-> "Net 30 days",
                 items          |-> [n \in 1..Cardinality(hits) |->
                                        ItemDict(db.invoice_items[p[n]])]])
                  : p \in Ascending(hits, [n \in hits |-> db.invoice_items[n].work_date])}

\* an Optional[int] argument: None, or the int v
NoArg == [given |-> FALSE, v |-> 0]

IntArg(n) == [given |-> TRUE, v |-> n]

\* if customer_id: None and 0 are false
Truthy(x) == x.given /\ x.v # 0

SummaryRow(i, c) ==
    [id |-> i.id, invoice_number |-> i.invoice_number, customer_name |-> c.name,
     invoice_date |-> convert_date(i.invoice_date).val,
     total_amount |-> i.total_amount]

\* the rows of FROM invoices i JOIN customers c ON i.customer_id = c.id
\* [WHERE i.customer_id = ?], as <<invoice row number, customer row number>>
JoinedWithCustomer(db, customer_id) ==
    {<<k, c>> \in (1..Len(db.invoices)) \X (1..Len(db.customers)) :
        /\ db.customers[c].id = db.invoices[k].customer_id
        /\ Truthy(customer_id) => db.invoices[k].customer_id = customer_id.v}

Invoice_list_all(db, customer_id) ==
    LET hits == JoinedWithCustomer(db, customer_id)
    IN IF \E h \in hits : ~convert_date(db.invoices[h[1]].invoice_date).ok
       THEN {Raises("ValueError", <<"invalid date">>)}
       ELSE {Returns([n \in 1..Cardinality(hits) |->
                        SummaryRow(db.invoices[p[n][1]], db.customers[p[n][2]])])
              : p \in Descending(hits, [h \in hits |-> db.invoices[h[1]].invoice_date])}

\* the first n elements of a list
Take(s, n) == SubSeq(s, 1, IF n < Len(s) THEN n ELSE Len(s))

\* Invoice.get_recent(limit): the summary rows of list_all, cut after limit
Invoice_get_recent(db, limit) ==
    {IF l.ok THEN Returns(Take(l.val, limit)) ELSE l
        : l \in Invoice_list_all(db, NoArg)}

RecentShown == 3

dashboard_all(db) == Invoice_list_all(db, NoArg)

\* the rows the dashboard route passes to its template
dashboard(db) == Invoice_get_recent(db, RecentShown)

(***************************************************************************)
(* The invoice controller.  An input item is a dict; the value under a key *)
(* is [t |-> "num" | "str" | "missing", v |-> the value].                  *)
(***************************************************************************)
\* isinstance(x, (int, float)); item.get(key) is None for a missing key
IsNumber(x) == x.t = "num"

QuantityInvalidOnlyIfNegative(item) ==
    ~IsNumber(item.quantity) \/ item.quantity.v < 0

QuantityInvalid(item) == ~IsNumber(item.quantity) \/ item.quantity.v <= 0

RateInvalid(item) == ~IsNumber(item.rate) \/ item.rate.v < 0

LineAmountIsRate(item) == item.rate.v

\* item["quantity"] * item["rate"]
LineAmount(item) == item.quantity.v * item.rate.v

\* the first item the validation loop rejects, 0 when it rejects none
FirstInvalid(items) ==
    LET bad == {i \in 1..Len(items) :
                    QuantityInvalid(items[i]) \/ RateInvalid(items[i])}
    IN IF bad = {} THEN 0 ELSE CHOOSE i \in bad : \A j \in bad : i <= j

\* total_amount after the validation loop
RECURSIVE TotalAmount(_)
TotalAmount(items) ==
    IF items = <<>> THEN 0
    ELSE TotalAmount(SubSeq(items, 1, Len(items) - 1)) + LineAmount(items[Len(items)])

\* the loop that adds the items, from item k on: it stops at the first item
\* whose date or description cannot be read, with the earlier rows committed
RECURSIVE AddItems(_, _, _, _)
AddItems(db, invoice_id, items, k) ==
    IF k > Len(items) THEN [db |-> db, out |-> Returns(invoice_id)]
    ELSE LET item == items[k]
         IN IF item.date.t = "missing"
            THEN [db |-> db, out |-> Raises("KeyError", <<"'date'">>)]
            ELSE LET work_date == parse_date_safely(item.date.v)
                 IN IF ~work_date.ok
                    THEN [db |-> db, out |-> Raises("ValueError", work_date.err)]
                    ELSE IF item.description.t = "missing"
                    THEN [db |-> db, out |-> Raises("KeyError", <<"'description'">>)]
                    ELSE AddItems(
                            InvoiceItem_add(db,
                                [invoice_id  |-> invoice_id,
                                 work_date   |-> work_date.val,
                                 description |-> item.description.v,
                                 quantity    |-> item.quantity.v,
                                 rate        |-> item.rate.v,
                                 amount      |-> LineAmount(item)]).db,
                            invoice_id, items, k + 1)

create_invoice(db, customer_id, metadata, items) ==
    LET bad == FirstInvalid(items)
    IN IF bad # 0
       THEN [db  |-> db,
             out |-> Raises("ValueError",
                            IF QuantityInvalid(items[bad])
                            THEN <<"Invalid quantity for item">>
                            ELSE <<"Invalid rate for item">>)]
       ELSE LET invoice_date == parse_date_safely(metadata.invoice_date)
                due_date     == parse_date_safely(metadata.due_date)
            IN IF ~invoice_date.ok
               THEN [db |-> db, out |-> Raises("ValueError", invoice_date.err)]
               ELSE IF ~due_date.ok
               THEN [db |-> db, out |-> Raises("ValueError", due_date.err)]
               ELSE LET created ==
                            Invoice_create(db,
                                [invoice_number |-> metadata.invoice_number,
                                 customer_id    |-> customer_id,
                                 invoice_date   |-> invoice_date.val,
                                 due_date       |-> due_date.val,
                                 total_amount   |-> TotalAmount(items)])
                    IN IF ~created.out.ok THEN created
                       ELSE AddItems(created.db, created.out.val, items, 1)

\* except (ValueError, KeyError, TypeError) as e: raise ValueError(f"...: {e}")
WrapEveryError(out) ==
    IF ~out.ok
    THEN Raises("ValueError", <<"Error importing invoice from files">> \o out.err)
    ELSE out

WrapImportError(out) ==
    IF ~out.ok /\ out.exc \in {"ValueError", "KeyError", "TypeError"}
    THEN Raises("ValueError", <<"Error importing invoice from files">> \o out.err)
    ELSE out

import_invoice_from_files(db, customer_id, invoice_data_file, items, clock) ==
    LET metadata == generate_invoice_metadata_from_filename(invoice_data_file, clock)
    IN IF ~metadata.ok
       THEN [db |-> db, out |-> WrapImportError(Raises("ValueError", metadata.err))]
       ELSE LET created == create_invoice(db, customer_id, metadata.val, items)
            IN [db |-> created.db, out |-> WrapImportError(created.out)]

(***************************************************************************)
(* create_invoice write by write: every INSERT is followed by its own      *)
(* commit, so the store can be seen, and the process can stop, between any *)
(* two of them.                                                            *)
(***************************************************************************)
\* create_invoice up to the return of Invoice.create: the validation loop,
\* the dates, the INSERT of the invoice row and its commit
CreateInvoiceRow(db, customer_id, metadata, items) ==
    LET bad == FirstInvalid(items)
    IN IF bad # 0
       THEN [db  |-> db,
             out |-> Raises("ValueError",
                            IF QuantityInvalid(items[bad])
                            THEN <<"Invalid quantity for item">>
                            ELSE <<"Invalid rate for item">>)]
       ELSE LET invoice_date == parse_date_safely(metadata.invoice_date)
                due_date     == parse_date_safely(metadata.due_date)
            IN IF ~invoice_date.ok
               THEN [db |-> db, out |-> Raises("ValueError", invoice_date.err)]
               ELSE IF ~due_date.ok
               THEN [db |-> db, out |-> Raises("ValueError", due_date.err)]
               ELSE Invoice_create(db,
                        [invoice_number |-> metadata.invoice_number,
                         customer_id    |-> customer_id,
                         invoice_date   |-> invoice_date.val,
                         due_date       |-> due_date.val,
                         total_amount   |-> TotalAmount(items)])

AddItemRowToNextInvoice(db, invoice_id, item) ==
    InvoiceItem_add(db,
        [invoice_id  |-> invoice_id + 1,
         work_date   |-> <<>>,
         description |-> "",
         quantity    |-> item.quantity.v,
         rate        |-> item.rate.v,
         amount      |-> LineAmount(item)])

AddItemRowIfReadable(db, invoice_id, item) ==
    IF \/ item.date.t = "missing" \/ item.description.t = "missing"
       \/ ~parse_date_safely(item.date.v).ok
    THEN [db |-> db, out |-> Returns(0)]
    ELSE InvoiceItem_add(db,
            [invoice_id  |-> invoice_id,
             work_date   |-> parse_date_safely(item.date.v).val,
             description |-> item.description.v,
             quantity    |-> item.quantity.v,
             rate        |-> item.rate.v,
             amount      |-> LineAmount(item)])

\* one pass of the loop that adds the items: the row of item is inserted and
\* committed, or its date or description cannot be read
AddItemRow(db, invoice_id, item) ==
    IF item.date.t = "missing"
    THEN [db |-> db, out |-> Raises("KeyError", <<"'date'">>)]
    ELSE LET work_date == parse_date_safely(item.date.v)
         IN IF ~work_date.ok
            THEN [db |-> db, out |-> Raises("ValueError", work_date.err)]
            ELSE IF item.description.t = "missing"
            THEN [db |-> db, out |-> Raises("KeyError", <<"'description'">>)]
            ELSE InvoiceItem_add(db,
                    [invoice_id  |-> invoice_id,
                     work_date   |-> work_date.val,
                     description |-> item.description.v,
                     quantity    |-> item.quantity.v,
                     rate        |-> item.rate.v,
                     amount      |-> LineAmount(item)])

(***************************************************************************)
(* The invoice data parser.  A number read by float() is kept exact, as    *)
(* the fraction num/den in lowest terms with den > 0; inf is 1/0, -inf is  *)
(* -1/0 and nan is 0/0.                                                    *)
(***************************************************************************)
Whitespace == {" ", "\t", "\n"}

\* str.strip()
strip(s) ==
    LET inked == {i \in 1..Len(s) : s[i] \notin Whitespace}
    IN IF inked = {} THEN <<>>
       ELSE SubSeq(s, CHOOSE i \in inked : \A j \in inked : i <= j,
                      CHOOSE i \in inked : \A j \in inked : j <= i)

\* sub in s
HasSubstring(s, sub) ==
    \E i \in 1..(Len(s) - Len(sub) + 1) : SubSeq(s, i, i + Len(sub) - 1) = sub

RECURSIVE GCD(_, _)
GCD(a, b) == IF b = 0 THEN a ELSE GCD(b, a % b)

RECURSIVE Pow10(_)
Pow10(k) == IF k = 0 THEN 1 ELSE 10 * Pow10(k - 1)

\* n/d in lowest terms, d > 0
Fraction(n, d) ==
    LET g == GCD(IF n < 0 THEN -n ELSE n, d)
    IN [num |-> n \div g, den |-> d \div g]

Zero == Fraction(0, 1)

NaN == [num |-> 0, den |-> 0]

Infinity == [num |-> 1, den |-> 0]

MinusInfinity == [num |-> -1, den |-> 0]

\* x < 0, x <= 0 and x > 0 of Python floats: each is False for nan
LessThanZero(x) == x.num < 0

AtMostZero(x) == x.num < 0 \/ (x.num = 0 /\ x.den # 0)

MoreThanZero(x) == x.num > 0

\* str.lower() of the letters of "nan", "inf" and "infinity"
LowerLetter(c) ==
    CASE c = "N" -> "n" [] c = "A" -> "a" [] c = "I" -> "i" [] c = "F" -> "f"
      [] c = "T" -> "t" [] c = "Y" -> "y" [] OTHER -> c

AllDigits(s) == \A i \in 1..Len(s) : IsDigit(s[i])

\* float(s) for a string without exponent or underscore: decimal notation is
\* read, an optional sign, digits, and a point with digits before or after
\* it; so are "nan", "inf" and "infinity" in any case, with an optional sign;
\* the rest raises ValueError
float(s) ==
    LET t        == strip(s)
        signed   == t # <<>> /\ t[1] \in {"+", "-"}
        minus    == signed /\ t[1] = "-"
        body     == IF signed THEN Tail(t) ELSE t
        word     == [i \in 1..Len(body) |-> LowerLetter(body[i])]
        parts    == Split(body, ".")
        whole    == parts[1]
        fraction == IF Len(parts) = 2 THEN parts[2] ELSE <<>>
    IN IF word = <<"n", "a", "n">> THEN Ok(NaN)
       ELSE IF word \in {<<"i", "n", "f">>,
                         <<"i", "n", "f", "i", "n", "i", "t", "y">>}
       THEN Ok(IF minus THEN MinusInfinity ELSE Infinity)
       ELSE IF \/ Len(parts) > 2
               \/ ~AllDigits(whole) \/ ~AllDigits(fraction)
               \/ whole \o fraction = <<>>
       THEN Raise(<<"could not convert string to float">>)
       ELSE LET n == StrToNat(whole \o fraction)
            IN Ok(Fraction(IF minus THEN -n ELSE n, Pow10(Len(fraction))))

\* the inner ValueError("Amount cannot be negative") is caught by the same
\* except clause and replaced like a failure of float()
validate_amount(amount) ==
    LET cleaned == strip(RemoveAll(RemoveAll(amount, <<"$">>), <<",">>))
        value   == float(cleaned)
    IN IF ~value.ok THEN Raise(<<"Invalid amount">>)
       ELSE IF LessThanZero(value.val) THEN Raise(<<"Invalid amount">>)
       ELSE value

\* amount / quantity for amount >= 0 or nan, and quantity > 0
Divide(amount, quantity) ==
    IF amount = NaN THEN NaN
    ELSE IF quantity = Infinity
    THEN IF amount = Infinity THEN NaN ELSE Zero
    ELSE IF amount = Infinity THEN Infinity
    ELSE Fraction(amount.num * quantity.den, amount.den * quantity.num)

\* the date block of _parse_invoice_line
FormattedDate(date_str) ==
    IF "/" \in {date_str[i] : i \in 1..Len(date_str)}
    THEN LET as_is == parse_date_to_display(date_str)
         IN IF as_is.ok THEN as_is
            ELSE LET fields == Split(date_str, "/")
                 IN IF Len(fields) # 3 THEN Raise(<<"Invalid date", "unpack">>)
                    ELSE LET formatted_date ==
                                 zfill2(fields[1]) \o <<"/">> \o zfill2(fields[2])
                                     \o <<"/">> \o fields[3]
                             checked == parse_date_to_display(formatted_date)
                         IN IF checked.ok THEN Ok(formatted_date)
                            ELSE Raise(<<"Invalid date">> \o checked.err)
    ELSE Raise(<<"Invalid date", "Invalid date format">>)

_parse_invoice_line_strict(line) ==
    Raise(<<"Error parsing invoice line", "Insufficient fields">>)

\* Ok(None) for a line with fewer than four fields, Ok(item), or the error
_parse_invoice_line(line) ==
    LET parts == Split(line, "\t")
    IN IF Len(parts) < 4 THEN Ok(None)
       ELSE LET date_str     == strip(parts[1])
                quantity_str == strip(parts[2])
                amount_str   == strip(parts[3])
                description  == strip(parts[4])
                quantity     == float(quantity_str)
                amount       == validate_amount(amount_str)
                date         == FormattedDate(date_str)
                wrap(e)      == Raise(<<"Error parsing invoice line">> \o e)
            IN IF ~quantity.ok THEN wrap(<<"Invalid quantity">> \o quantity.err)
               ELSE IF AtMostZero(quantity.val)
               THEN wrap(<<"Invalid quantity", "Quantity must be positive">>)
               ELSE IF ~amount.ok THEN wrap(<<"Invalid amount">> \o amount.err)
               ELSE IF ~date.ok THEN wrap(date.err)
               ELSE Ok([date        |-> date.val,
                        description |-> description,
                        quantity    |-> quantity.val,
                        rate        |-> IF MoreThanZero(quantity.val)
                                        THEN Divide(amount.val, quantity.val)
                                        ELSE Zero])

\* the outcome of parse_invoice_data: the items, or the exception exc with
\* the parts err of its message and the line number line it names; last is
\* the number of the last line the loop took up
Parsed(items, last) ==
    [ok |-> TRUE, val |-> items, exc |-> "none", err |-> <<>>, line |-> 0,
     last |-> last]

ParseFailed(exc, err, line, last) ==
    [ok |-> FALSE, val |-> <<>>, exc |-> exc, err |-> err, line |-> line,
     last |-> last]

\* 1 if lines and "Date" in lines[0] and "Hours" in lines[0] else 0
start_index(lines) ==
    IF /\ lines # <<>>
       /\ HasSubstring(lines[1], <<"D", "a", "t", "e">>)
       /\ HasSubstring(lines[1], <<"H", "o", "u", "r", "s">>)
    THEN 1 ELSE 0

line_num_from_one(start, offset) == offset + 1

\* enumerate(lines[start_index:], start=start_index + 1): the number given to
\* the line at offset (from 0) in the slice
line_num(start, offset) == start + 1 + offset

\* the loop over lines[start_index:], from the line at offset on
RECURSIVE ParseLines(_, _, _, _, _)
ParseLines(lines, start, offset, items, last) ==
    IF start + offset >= Len(lines)
    THEN IF items = <<>>
         THEN ParseFailed("ValueError", <<"No valid invoice items found">>, 0, last)
         ELSE Parsed(items, last)
    ELSE LET n    == line_num(start, offset)
             line == strip(lines[start + offset + 1])
         IN IF line = <<>> THEN ParseLines(lines, start, offset + 1, items, n)
            ELSE LET item == _parse_invoice_line(line)
                 IN IF ~item.ok
                    THEN ParseFailed("ValueError",
                                     <<"Error parsing line">> \o item.err, n, n)
                    ELSE ParseLines(lines, start, offset + 1,
                                    IF item.val = None THEN items
                                    ELSE Append(items, item.val), n)

parse_invoice_data_unchecked(f) ==
    ParseLines(f.lines, start_index(f.lines), 0, <<>>, 0)

\* f is the file at filename: whether it exists, and its lines
parse_invoice_data(f) ==
    IF ~f.exists
    THEN ParseFailed("FileNotFoundError", <<"Invoice data file not found">>, 0, 0)
    ELSE ParseLines(f.lines, start_index(f.lines), 0, <<>>, 0)

(***************************************************************************)
(* The client data parser.  A value json.load returns is a record with its *)
(* type t: None, a bool, a number, a str (its characters), a list (its     *)
(* elements) or a dict (the function from its keys to their values).       *)
(***************************************************************************)
JNull == [t |-> "null"]

JBool(b) == [t |-> "bool", b |-> b]

JNum(n) == [t |-> "number", n |-> n]

JStr(s) == [t |-> "string", s |-> s]

JArr(a) == [t |-> "array", a |-> a]

JObj(m) == [t |-> "object", m |-> m]

\* the keys "client", "name" and "address"
ClientKey == <<"c", "l", "i", "e", "n", "t">>

NameKey == <<"n", "a", "m", "e">>

AddressKey == <<"a", "d", "d", "r", "e", "s", "s">>

\* bool(x)
Truth(x) ==
    CASE x.t = "null"   -> FALSE
      [] x.t = "bool"   -> x.b
      [] x.t = "number" -> x.n # 0
      [] x.t = "string" -> x.s # <<>>
      [] x.t = "array"  -> x.a # <<>>
      [] x.t = "object" -> DOMAIN x.m # {}

\* key in x: a key of a dict, an element of a list, a substring of a str;
\* TypeError for the rest
In(key, x) ==
    CASE x.t = "object" -> Ok(key \in DOMAIN x.m)
      [] x.t = "array"  -> Ok(\E i \in 1..Len(x.a) : x.a[i] = JStr(key))
      [] x.t = "string" -> Ok(HasSubstring(x.s, key))
      [] OTHER          -> Raise(<<"is not iterable">>)

\* x.get(key) of a dict
Get(x, key) == IF key \in DOMAIN x.m THEN x.m[key] ELSE JNull

\* f is the file at filepath: whether it exists, whether its bytes are UTF-8,
\* whether its text is JSON, and the value it stands for
parse_client_data(f) ==
    IF ~f.exists
    THEN Raises("FileNotFoundError", <<"Client file not found">>)
    ELSE IF ~f.utf8
    THEN Raises("UnicodeDecodeError", <<"codec can't decode">>)
    ELSE IF ~f.json
    THEN Raises("ValueError", <<"Invalid JSON">>)
    ELSE LET data == f.data
             has  == In(ClientKey, data)
         IN IF ~has.ok THEN Raises("TypeError", has.err)
            ELSE IF ~has.val
            THEN Raises("ValueError", <<"Client data missing 'client' field">>)
            ELSE IF data.t # "object"
            THEN Raises("TypeError", <<"indices must be integers">>)
            ELSE LET client == data.m[ClientKey]
                 IN IF client.t # "object"
                    THEN Raises("AttributeError", <<"has no attribute 'get'">>)
                    ELSE IF ~Truth(Get(client, NameKey))
                    THEN Raises("ValueError", <<"Client name is required">>)
                    ELSE IF ~Truth(Get(client, AddressKey))
                    THEN Raises("ValueError", <<"Client address is required">>)
                    ELSE Returns(data)

(***************************************************************************)
(* db.py: the cached connection.  m is the state of the module: the cached *)
(* connection (the number of a connection object, or NoConnection), the    *)
(* path, the connection objects made so far and the database files the     *)
(* schema script has been run on.                                          *)
(***************************************************************************)
\* _db_connection = None
NoConnection == 0

\* sqlite3.connect(path): a new connection object, open
Connect(conns, path) == Append(conns, [path |-> path, open |-> TRUE])

get_db_connection_uncached(m) ==
    [m   |-> [m EXCEPT !.connections = Connect(@, m.path),
                       !.connection = Len(m.connections) + 1],
     out |-> Returns(Len(m.connections) + 1)]

get_db_connection(m) ==
    IF m.connection = NoConnection
    THEN [m   |-> [m EXCEPT !.connections = Connect(@, m.path),
                            !.connection = Len(m.connections) + 1],
          out |-> Returns(Len(m.connections) + 1)]
    ELSE [m |-> m, out |-> Returns(m.connection)]

close_db_keeps_cache(m) ==
    IF m.connection # NoConnection
    THEN [m   |-> [m EXCEPT !.connections[m.connection].open = FALSE],
          out |-> Returns(NoConnection)]
    ELSE [m |-> m, out |-> Returns(NoConnection)]

\* returns None
close_db(m) ==
    IF m.connection # NoConnection
    THEN [m   |-> [m EXCEPT !.connections[m.connection].open = FALSE,
                            !.connection = NoConnection],
          out |-> Returns(NoConnection)]
    ELSE [m |-> m, out |-> Returns(NoConnection)]

reset_db_keeps_connection(m, path) ==
    [m |-> [m EXCEPT !.path = path], out |-> Returns(NoConnection)]

reset_db(m, path) ==
    [m |-> [close_db(m).m EXCEPT !.path = path], out |-> Returns(NoConnection)]

\* init_db that closes what is cached and connects to path
init_db_reconnecting(m, path, schema_exists) ==
    LET got == get_db_connection(reset_db(m, path).m)
        connection == got.out.val
    IN IF ~schema_exists
       THEN [m |-> got.m, out |-> Raises("FileNotFoundError", <<"application/schema.sql">>)]
       ELSE [m   |-> [got.m EXCEPT !.initialised =
                                @ \cup {got.m.connections[connection].path}],
             out |-> Returns(NoConnection)]

\* schema_exists: whether open("application/schema.sql") finds the file
init_db(m, path, schema_exists) ==
    LET got == get_db_connection([m EXCEPT !.path = path])
        connection == got.out.val
    IN IF ~schema_exists
       THEN [m |-> got.m, out |-> Raises("FileNotFoundError", <<"application/schema.sql">>)]
       ELSE [m   |-> [got.m EXCEPT !.initialised =
                                @ \cup {got.m.connections[connection].path}],
             out |-> Returns(NoConnection)]

(***************************************************************************)
(* State                                                                   *)
(***************************************************************************)
VARIABLES
    customers,      \* rows of the customers table, in rowid order
    invoices,       \* rows of the invoices table, in rowid order
    invoice_items,  \* rows of the invoice_items table, in rowid order
    call,           \* the call in progress on the store, with its arguments
    out,            \* the outcome of the call once its handler has run
    pc,             \* which function is under study and whether it has run
    date_in,        \* calculate_due_date: the date the input string is made of
    padded,         \*   whether the input string is zero-padded
    days_a, days_b, \*   the two offsets
    due,            \*   the results
    file_in,        \* generate_invoice_metadata_from_filename: the path
    now,            \*   datetime.now()
    metadata,       \*   the result
    db_connection,  \* db.py: _db_connection, the cached connection or None
    db_path,        \*   _db_path
    connections,    \*   the sqlite3.Connection objects made so far
    initialised,    \*   the database files the schema script has been run on
    calls,          \*   the calls made on db.py and what they returned
    file,           \* parse_invoice_data: the file named by its argument
    parsed,         \*   the result
    amount,         \* validate_amount: its argument
    validated,      \*   the result
    client_file,    \* parse_client_data: the file named by its argument
    client_data,    \*   the result
    upserts         \* two processes in Customer.upsert: where each one is

vars == <<customers, invoices, invoice_items, call, out, pc, date_in, padded,
          days_a, days_b, due, file_in, now, metadata,
          db_connection, db_path, connections, initialised, calls, file, parsed,
          amount, validated, client_file, client_data, upserts>>

storeVars == <<customers, invoices, invoice_items, call, out>>

dateVars == <<date_in, padded, days_a, days_b, due>>

metaVars == <<file_in, now, metadata>>

cacheVars == <<db_connection, db_path, connections, initialised, calls>>

parseVars == <<file, parsed, amount, validated, client_file, client_data,
               upserts>>

fileVars == <<file, parsed>>

amountVars == <<amount, validated>>

clientVars == <<client_file, client_data>>

raceVars == <<upserts>>

(***************************************************************************)
(* Inputs of the pure functions                                            *)
(***************************************************************************)
MaxDaysOut == 366

MaxPieces == 4

Years == {1900, 2024, 2025}

DaysOutA == {0, 1, 30, MaxDaysOut}

DaysOutB == {0, 30}

\* the clock readings tried for datetime.now()
Todays == {[y |-> 2024, m |-> 12, d |-> 31],
           [y |-> 2025, m |-> 3, d |-> 5],
           [y |-> 2026, m |-> 11, d |-> 1]}

\* an input string for a month, a day and a year, zero-padded or not
DateString(dt, pad) ==
    (IF pad \/ dt.m >= 10 THEN Fmt02d(dt.m) ELSE <<DigitChar(dt.m)>>)
        \o <<"/">> \o
    (IF pad \/ dt.d >= 10 THEN Fmt02d(dt.d) ELSE <<DigitChar(dt.d)>>)
        \o <<"/">> \o Fmt4d(dt.y)

TailPieces == {Prefix, <<"0">>, <<"1">>, <<"2">>, <<"3">>, <<"-">>, <<"x">>}

RECURSIVE Tails(_)
Tails(n) ==
    IF n = 0 THEN {<<>>}
    ELSE LET T == Tails(n - 1) IN T \cup {t \o p : t \in T, p \in TailPieces}

\* the path d/<body>.txt
PathOf(body) == <<"d", "/">> \o body \o <<".", "t", "x", "t">>

NotRun == [ok |-> FALSE, val |-> <<>>, err |-> <<"not run">>]

NoDue == [first |-> NotRun, second |-> NotRun, direct |-> NotRun]

MetaNotRun == RaiseMeta(<<"not run">>)

DateIdle ==
    /\ date_in = NoDate /\ padded = TRUE /\ days_a = 0 /\ days_b = 0
    /\ due = NoDue

MetaIdle ==
    /\ file_in = <<>> /\ now = NoDate /\ metadata = MetaNotRun

\* db.py as imported: no connection, the default path
CacheIdle ==
    /\ db_connection = NoConnection
    /\ db_path = "invoices.db"
    /\ connections = <<>>
    /\ initialised = {}
    /\ calls = <<>>

NotParsed == ParseFailed("none", <<"not run">>, 0, 0)

FileIdle ==
    /\ file = [exists |-> FALSE, lines |-> <<>>]
    /\ parsed = NotParsed

NotValidated == Raise(<<"not run">>)

AmountIdle ==
    /\ amount = <<>>
    /\ validated = NotValidated

NoClientFile == [exists |-> FALSE, utf8 |-> FALSE, json |-> FALSE, data |-> JNull]

\* the two processes that share the database file
Processes == {1, 2}

\* a process that is not in Customer.upsert
NotInUpsert == [at |-> "idle", name |-> "", address |-> "",
                customer |-> [id |-> 0, name |-> "", address |-> ""], id |-> 0]

RaceIdle == upserts = [p \in Processes |-> NotInUpsert]

ClientIdle ==
    /\ client_file = NoClientFile
    /\ client_data = Raises("none", <<"not run">>)

ParseIdle == FileIdle /\ AmountIdle /\ ClientIdle /\ RaceIdle

StoreIdle ==
    /\ customers = <<>> /\ invoices = <<>> /\ invoice_items = <<>>
    /\ call = [op |-> "none"]
    /\ out = Returns(0)

InitDate ==
    /\ pc = "date"
    /\ date_in \in [y : Years, m : 1..12, d : 1..31]
    /\ padded \in BOOLEAN
    /\ days_a \in DaysOutA
    /\ days_b \in DaysOutB
    /\ due = NoDue
    /\ MetaIdle /\ StoreIdle /\ CacheIdle /\ ParseIdle

InitMeta ==
    /\ pc = "meta"
    /\ file_in \in {PathOf(lead \o t) : lead \in {<<>>, Prefix}, t \in Tails(MaxPieces)}
    /\ now \in Todays
    /\ metadata = MetaNotRun
    /\ DateIdle /\ StoreIdle /\ CacheIdle /\ ParseIdle

\* calculate_due_date(d, a), calculate_due_date of that result with b, and
\* calculate_due_date(d, a + b)
DueDate ==
    /\ pc = "date"
    /\ LET d     == DateString(date_in, padded)
           first == calculate_due_date(d, days_a)
       IN due' = [first  |-> first,
                  second |-> IF first.ok THEN calculate_due_date(first.val, days_b)
                             ELSE NotRun,
                  direct |-> calculate_due_date(d, days_a + days_b)]
    /\ pc' = "date_done"
    /\ UNCHANGED <<date_in, padded, days_a, days_b>>
    /\ UNCHANGED metaVars /\ UNCHANGED storeVars
    /\ UNCHANGED cacheVars /\ UNCHANGED parseVars

GenerateMetadata ==
    /\ pc = "meta"
    /\ metadata' = generate_invoice_metadata_from_filename(file_in, now)
    /\ pc' = "meta_done"
    /\ UNCHANGED <<file_in, now>>
    /\ UNCHANGED dateVars /\ UNCHANGED storeVars
    /\ UNCHANGED cacheVars /\ UNCHANGED parseVars

InitPure == InitDate \/ InitMeta

NextPure == DueDate \/ GenerateMetadata

SpecPure == InitPure /\ [][NextPure]_vars

(***************************************************************************)
(* The store and the calls made on it.  A call is invoked with arguments   *)
(* drawn from the input sets, then its handler runs to completion.         *)
(***************************************************************************)
MaxRows == 4

MaxItems == 2

Names == {"Acme Co", "acme co"}

Addresses == {"1 Main St", "2 Side St"}

CustomerIds == {1, 2}

\* the clock reading during the calls on the store
StoreNow == [y |-> 2026, m |-> 11, d |-> 1]

InvoiceNumber(y, m, d) == Fmt4d(y) \o <<".">> \o Fmt02d(m) \o <<".">> \o Fmt02d(d)

Date(y, m, d) == [y |-> y, m |-> m, d |-> d]

\* InvoiceDetails passed to Invoice.create: the second repeats the number of
\* the first with another customer, other dates and another total
DetailsInputs ==
    {[invoice_number |-> InvoiceNumber(2025, 3, 15), customer_id |-> 1,
      invoice_date |-> strftime_storage(Date(2025, 3, 15)),
      due_date |-> strftime_storage(Date(2025, 4, 14)), total_amount |-> 1000],
     [invoice_number |-> InvoiceNumber(2025, 3, 15), customer_id |-> 2,
      invoice_date |-> strftime_storage(Date(2025, 3, 22)),
      due_date |-> strftime_storage(Date(2025, 4, 21)), total_amount |-> 2000],
     [invoice_number |-> InvoiceNumber(2025, 3, 21), customer_id |-> 1,
      invoice_date |-> strftime_storage(Date(2025, 3, 21)),
      due_date |-> strftime_storage(Date(2025, 4, 20)), total_amount |-> 1000]}

\* LineItem passed to InvoiceItem.add; the amount is the caller's
LineItemInputs ==
    {[invoice_id |-> i, work_date |-> strftime_storage(Date(2025, 3, 15)),
      description |-> "Consulting", quantity |-> 2, rate |-> 3, amount |-> 6]
        : i \in {1, 2}}

MetadataInputs ==
    {[invoice_number |-> InvoiceNumber(2025, 3, 15),
      invoice_date |-> DateString(Date(2025, 3, 15), TRUE),
      due_date |-> DateString(Date(2025, 4, 14), TRUE)],
     [invoice_number |-> InvoiceNumber(2025, 4, 1),
      invoice_date |-> strftime_storage(Date(2025, 4, 1)),
      due_date |-> DateString(Date(2025, 5, 1), TRUE)]}

FileInputs ==
    {PathOf(Prefix \o <<"3", "-", "1", "5">>),
     PathOf(Prefix \o <<"1", "3", "-", "1">>),
     PathOf(<<"n", "o", "t", "e", "s">>)}

Num(n) == [t |-> "num", v |-> n]

NotANumber == [t |-> "str", v |-> 0]

MissingNumber == [t |-> "missing", v |-> 0]

Str(x) == [t |-> "str", v |-> x]

MissingDate == [t |-> "missing", v |-> <<>>]

MissingText == [t |-> "missing", v |-> ""]

Item1 ==
    [date |-> Str(DateString(Date(2025, 3, 15), TRUE)),
     description |-> Str("Web Development"), quantity |-> Num(2), rate |-> Num(3)]

Item2 ==
    [date |-> Str(DateString(Date(2025, 3, 5), FALSE)),
     description |-> Str("Bug Fixes"), quantity |-> Num(1), rate |-> Num(0)]

GoodItems == {Item1, Item2}

\* items the validation loop rejects
InvalidItems ==
    {[Item1 EXCEPT !.quantity = q] : q \in {Num(0), Num(-1), NotANumber, MissingNumber}}
    \cup {[Item1 EXCEPT !.rate = r] : r \in {Num(-1), NotANumber, MissingNumber}}

\* items that pass the validation loop and cannot be stored
UnstorableItems ==
    {[Item1 EXCEPT !.date = Str(<<"1", "3", "/", "4", "5", "/", "2", "0", "2", "5">>)],
     [Item1 EXCEPT !.date = MissingDate],
     [Item1 EXCEPT !.description = MissingText]}

RECURSIVE SeqsUpTo(_, _)
SeqsUpTo(S, n) ==
    IF n = 0 THEN {<<>>}
    ELSE LET T == SeqsUpTo(S, n - 1) IN T \cup {Append(t, x) : t \in T, x \in S}

\* lists of good items, and lists of Item1 with one bad item at any position
ItemLists ==
    SeqsUpTo(GoodItems, MaxItems)
    \cup {[l EXCEPT ![i] = b] :
            <<l, i>> \in {<<l, i>> \in SeqsUpTo({Item1}, MaxItems) \X (1..MaxItems) :
                            i <= Len(l)},
            b \in InvalidItems \cup UnstorableItems}

DB == [customers |-> customers, invoices |-> invoices, invoice_items |-> invoice_items]

\* rows the store can still take
RowsLeft == MaxRows - (Len(customers) + Len(invoices) + Len(invoice_items))

InitStore ==
    /\ pc = "idle"
    /\ customers = <<>> /\ invoices = <<>> /\ invoice_items = <<>>
    /\ call = [op |-> "none"]
    /\ out = Returns(0)
    /\ now = StoreNow
    /\ file_in = <<>> /\ metadata = MetaNotRun
    /\ DateIdle /\ CacheIdle /\ ParseIdle

Invoke(c) ==
    /\ pc = "idle"
    /\ call' = c
    /\ pc' = "called"
    /\ UNCHANGED <<customers, invoices, invoice_items, out>>
    /\ UNCHANGED dateVars /\ UNCHANGED metaVars
    /\ UNCHANGED cacheVars /\ UNCHANGED parseVars

\* the handler of the call in progress has run to its end: r is its result
Complete(r) ==
    /\ customers' = r.db.customers
    /\ invoices' = r.db.invoices
    /\ invoice_items' = r.db.invoice_items
    /\ out' = r.out
    /\ pc' = "returned"
    /\ UNCHANGED call
    /\ UNCHANGED dateVars /\ UNCHANGED metaVars
    /\ UNCHANGED cacheVars /\ UNCHANGED parseVars

\* the caller goes on to its next call
Resume ==
    /\ pc = "returned"
    /\ pc' = "idle"
    /\ call' = [op |-> "none"]
    /\ out' = Returns(0)
    /\ UNCHANGED <<customers, invoices, invoice_items>>
    /\ UNCHANGED dateVars /\ UNCHANGED metaVars
    /\ UNCHANGED cacheVars /\ UNCHANGED parseVars

InvokeCustomerCreate ==
    /\ RowsLeft >= 1
    /\ \E n \in Names, a \in Addresses :
          Invoke([op |-> "Customer.create", name |-> n, address |-> a])

CustomerCreate ==
    /\ pc = "called" /\ call.op = "Customer.create"
    /\ Complete(Customer_create(DB, call.name, call.address))

InvokeCustomerUpsert ==
    /\ RowsLeft >= 1
    /\ \E n \in Names, a \in Addresses :
          Invoke([op |-> "Customer.upsert", name |-> n, address |-> a])

CustomerUpsert ==
    /\ pc = "called" /\ call.op = "Customer.upsert"
    /\ Complete(Customer_upsert(DB, call.name, call.address))

InvokeInvoiceCreate ==
    /\ RowsLeft >= 1
    /\ \E d \in DetailsInputs : Invoke([op |-> "Invoice.create", details |-> d])

InvoiceCreate ==
    /\ pc = "called" /\ call.op = "Invoice.create"
    /\ Complete(Invoice_create(DB, call.details))

InvokeInvoiceItemAdd ==
    /\ RowsLeft >= 1
    /\ \E i \in LineItemInputs : Invoke([op |-> "InvoiceItem.add", item |-> i])

InvoiceItemAdd ==
    /\ pc = "called" /\ call.op = "InvoiceItem.add"
    /\ Complete(InvoiceItem_add(DB, call.item))

InvokeCreateInvoice ==
    \E c \in CustomerIds, md \in MetadataInputs, its \in ItemLists :
        /\ RowsLeft >= 1 + Len(its)
        /\ Invoke([op |-> "create_invoice", customer_id |-> c,
                   metadata |-> md, items |-> its])

CreateInvoice ==
    /\ pc = "called" /\ call.op = "create_invoice"
    /\ Complete(create_invoice(DB, call.customer_id, call.metadata, call.items))

InvokeImportInvoiceFromFiles ==
    \E c \in CustomerIds, f \in FileInputs, its \in ItemLists :
        /\ RowsLeft >= 1 + Len(its)
        /\ Invoke([op |-> "import_invoice_from_files", customer_id |-> c,
                   invoice_data_file |-> f, items |-> its])

ImportInvoiceFromFiles ==
    /\ pc = "called" /\ call.op = "import_invoice_from_files"
    /\ Complete(import_invoice_from_files(DB, call.customer_id,
                    call.invoice_data_file, call.items, now))

Init == InitStore

Next ==
    \/ InvokeCustomerCreate \/ CustomerCreate
    \/ InvokeCustomerUpsert \/ CustomerUpsert
    \/ InvokeInvoiceCreate \/ InvoiceCreate
    \/ InvokeInvoiceItemAdd \/ InvoiceItemAdd
    \/ InvokeCreateInvoice \/ CreateInvoice
    \/ InvokeImportInvoiceFromFiles \/ ImportInvoiceFromFiles
    \/ Resume

Spec == Init /\ [][Next]_vars

(***************************************************************************)
(* The queries on a store filled through Customer.create, Invoice.create   *)
(* and InvoiceItem.add.  A query is answered in one step; the caller then  *)
(* goes on.                                                                *)
(***************************************************************************)
MaxCustomers == 2

MaxInvoices == 4

MaxItemRows == 2

MaxLimit == 5

\* the names of the customers, in the order they are created
QueryNames == <<"Acme Co", "Beta LLC", "Gamma Inc">>

\* four invoices with distinct numbers: for two customers, across a year
\* end, and two of the same invoice_date
QueryDetails ==
    {[invoice_number |-> InvoiceNumber(2025, 3, 15), customer_id |-> 1,
      invoice_date |-> strftime_storage(Date(2025, 3, 15)),
      due_date |-> strftime_storage(Date(2025, 4, 14)), total_amount |-> 1000],
     [invoice_number |-> InvoiceNumber(2025, 3, 21), customer_id |-> 2,
      invoice_date |-> strftime_storage(Date(2025, 3, 21)),
      due_date |-> strftime_storage(Date(2025, 4, 20)), total_amount |-> 1200],
     [invoice_number |-> InvoiceNumber(2025, 3, 22), customer_id |-> 1,
      invoice_date |-> strftime_storage(Date(2025, 3, 21)),
      due_date |-> strftime_storage(Date(2025, 4, 20)), total_amount |-> 800],
     [invoice_number |-> InvoiceNumber(2024, 12, 31), customer_id |-> 1,
      invoice_date |-> strftime_storage(Date(2024, 12, 31)),
      due_date |-> strftime_storage(Date(2025, 1, 30)), total_amount |-> 500]}

QueryLineItems ==
    {[invoice_id |-> 1, work_date |-> strftime_storage(Date(2025, 3, 15)),
      description |-> "Consulting", quantity |-> 2, rate |-> 3, amount |-> 6],
     [invoice_id |-> 1, work_date |-> strftime_storage(Date(2025, 3, 5)),
      description |-> "Bug Fixes", quantity |-> 1, rate |-> 5, amount |-> 5],
     [invoice_id |-> 2, work_date |-> strftime_storage(Date(2025, 3, 15)),
      description |-> "Consulting", quantity |-> 2, rate |-> 3, amount |-> 6]}

\* ids that match no row, ids of the first rows, an id beyond the last row
QueryInvoiceIds == {-1, 0, 1, 2, MaxInvoices + 1}

QueryCustomerArgs == {NoArg} \cup {IntArg(c) : c \in 0..(MaxCustomers + 1)}

QueryLimits == {0, 1, 2, MaxLimit}

InitQuery ==
    /\ pc = "store"
    /\ customers = <<>> /\ invoices = <<>> /\ invoice_items = <<>>
    /\ call = [op |-> "none"]
    /\ out = Returns(0)
    /\ DateIdle /\ MetaIdle /\ CacheIdle /\ ParseIdle

\* a write on the store is made and has returned
Written(r) ==
    /\ pc = "store"
    /\ customers' = r.db.customers
    /\ invoices' = r.db.invoices
    /\ invoice_items' = r.db.invoice_items
    /\ UNCHANGED <<call, out, pc>>
    /\ UNCHANGED dateVars /\ UNCHANGED metaVars
    /\ UNCHANGED cacheVars /\ UNCHANGED parseVars

StoreCustomer ==
    /\ Len(customers) < MaxCustomers
    /\ Len(customers) < Len(QueryNames)
    /\ Written(Customer_create(DB, QueryNames[Len(customers) + 1], "1 Main St"))

StoreInvoice ==
    /\ Len(invoices) < MaxInvoices
    /\ \E d \in QueryDetails :
          /\ ~UniqueViolation(invoices, d.invoice_number)
          /\ Written(Invoice_create(DB, d))

StoreItem ==
    /\ Len(invoice_items) < MaxItemRows
    /\ \E i \in QueryLineItems : Written(InvoiceItem_add(DB, i))

\* the query c is made and returns r
Answered(c, r) ==
    /\ pc = "store"
    /\ call' = c
    /\ out' = r
    /\ pc' = "answered"
    /\ UNCHANGED <<customers, invoices, invoice_items>>
    /\ UNCHANGED dateVars /\ UNCHANGED metaVars
    /\ UNCHANGED cacheVars /\ UNCHANGED parseVars

GetData ==
    \E id \in QueryInvoiceIds : \E r \in Invoice_get_data(DB, id) :
        Answered([op |-> "Invoice.get_data", invoice_id |-> id], r)

ListAll ==
    \E c \in QueryCustomerArgs : \E r \in Invoice_list_all(DB, c) :
        Answered([op |-> "Invoice.list_all", customer_id |-> c], r)

GetRecent ==
    \E n \in QueryLimits : \E r \in Invoice_get_recent(DB, n) :
        Answered([op |-> "Invoice.get_recent", limit |-> n], r)

Dashboard ==
    \E r \in dashboard(DB) : Answered([op |-> "dashboard"], r)

NextQuery ==
    /\ pc = "answered"
    /\ pc' = "store"
    /\ call' = [op |-> "none"]
    /\ out' = Returns(0)
    /\ UNCHANGED <<customers, invoices, invoice_items>>
    /\ UNCHANGED dateVars /\ UNCHANGED metaVars
    /\ UNCHANGED cacheVars /\ UNCHANGED parseVars

NextStoreQuery ==
    \/ StoreCustomer \/ StoreInvoice \/ StoreItem
    \/ GetData \/ ListAll \/ GetRecent \/ Dashboard
    \/ NextQuery

SpecQuery == InitQuery /\ [][NextStoreQuery]_vars

(***************************************************************************)
(* The calls on db.py, in any order                                        *)
(***************************************************************************)
MaxCalls == 4

Paths == {"invoices.db", "test.db"}

Module ==
    [connection |-> db_connection, path |-> db_path,
     connections |-> connections, initialised |-> initialised]

InitCache ==
    /\ pc = "cache"
    /\ CacheIdle
    /\ DateIdle /\ MetaIdle /\ StoreIdle /\ ParseIdle

\* the call c on db.py runs to its end with result r
Called(c, r) ==
    /\ pc = "cache"
    /\ Len(calls) < MaxCalls
    /\ db_connection' = r.m.connection
    /\ db_path' = r.m.path
    /\ connections' = r.m.connections
    /\ initialised' = r.m.initialised
    /\ calls' = Append(calls, [op |-> c.op, path |-> c.path, out |-> r.out])
    /\ UNCHANGED pc
    /\ UNCHANGED dateVars /\ UNCHANGED metaVars
    /\ UNCHANGED storeVars /\ UNCHANGED parseVars

InitDb ==
    \E p \in Paths, schema_exists \in BOOLEAN :
        Called([op |-> "init_db", path |-> p], init_db(Module, p, schema_exists))

GetDbConnection ==
    Called([op |-> "get_db_connection", path |-> ""], get_db_connection(Module))

CloseDb ==
    Called([op |-> "close_db", path |-> ""], close_db(Module))

ResetDb ==
    \E p \in Paths : Called([op |-> "reset_db", path |-> p], reset_db(Module, p))

NextCache == InitDb \/ GetDbConnection \/ CloseDb \/ ResetDb

SpecCache == InitCache /\ [][NextCache]_vars

(***************************************************************************)
(* parse_invoice_data on the files of at most MaxLines lines               *)
(***************************************************************************)
MaxLines == 3

\* the header row
HeaderLine ==
    <<"D", "a", "t", "e", "\t", "H", "o", "u", "r", "s", "\t", "A", "m", "o",
      "u", "n", "t", "\t", "D", "e", "s", "c", "r", "i", "p", "t", "i", "o",
      "n">>

\* a data line: 2 hours, 100 in all
DevLine ==
    <<"3", "/", "1", "5", "/", "2", "0", "2", "5", "\t", "2", "\t", "1", "0",
      "0", "\t", "D", "e", "v">>

\* a data line: 1.5 hours, $1,200.00 in all
TestLine ==
    <<"0", "3", "/", "1", "6", "/", "2", "0", "2", "5", "\t", "1", ".", "5",
      "\t", "$", "1", ",", "2", "0", "0", ".", "0", "0", "\t", "T", "e", "s",
      "t">>

\* text without a tab
NoTabLine ==
    <<"i", "n", "v", "a", "l", "i", "d", "-", "l", "i", "n", "e">>

\* a data line without its description
ThreeFieldLine ==
    <<"0", "3", "/", "1", "5", "/", "2", "0", "2", "5", "\t", "8", "\t", "1",
      "5", "0">>

\* spaces only
BlankLine ==
    <<" ", " ">>

\* zero hours
ZeroQuantityLine ==
    <<"3", "/", "1", "5", "/", "2", "0", "2", "5", "\t", "0", "\t", "1", "0",
      "0", "\t", "D", "e", "v">>

\* a negative amount
NegativeAmountLine ==
    <<"3", "/", "1", "5", "/", "2", "0", "2", "5", "\t", "2", "\t", "-", "5",
      "\t", "D", "e", "v">>

\* month 13
BadDateLine ==
    <<"1", "3", "/", "4", "5", "/", "2", "0", "2", "5", "\t", "2", "\t", "1",
      "0", "0", "\t", "D", "e", "v">>

\* four fields, the last one empty
EmptyDescriptionLine ==
    <<"3", "/", "1", "5", "/", "2", "0", "2", "5", "\t", "2", "\t", "1", "0",
      "0", "\t">>

Lines ==
    {HeaderLine, DevLine, TestLine, NoTabLine, ThreeFieldLine, BlankLine,
     ZeroQuantityLine, NegativeAmountLine, BadDateLine, EmptyDescriptionLine}

Files ==
    {[exists |-> FALSE, lines |-> <<>>]}
    \cup {[exists |-> TRUE, lines |-> l] : l \in SeqsUpTo(Lines, MaxLines)}

InitParse ==
    /\ pc = "parse"
    /\ file \in Files
    /\ parsed = NotParsed
    /\ AmountIdle /\ ClientIdle /\ RaceIdle
    /\ DateIdle /\ MetaIdle /\ StoreIdle /\ CacheIdle

ParseInvoiceData ==
    /\ pc = "parse"
    /\ parsed' = parse_invoice_data(file)
    /\ pc' = "parsed"
    /\ UNCHANGED file /\ UNCHANGED amountVars /\ UNCHANGED clientVars
    /\ UNCHANGED raceVars
    /\ UNCHANGED dateVars /\ UNCHANGED metaVars
    /\ UNCHANGED storeVars /\ UNCHANGED cacheVars

SpecParse == InitParse /\ [][ParseInvoiceData]_vars

(***************************************************************************)
(* validate_amount on the strings of up to MaxAmountLen characters         *)
(***************************************************************************)
MaxAmountLen == 4

AmountChars == {"0", "1", ".", "-", "$", ",", " ", "n", "a"}

Amounts == SeqsUpTo(AmountChars, MaxAmountLen)

InitAmount ==
    /\ pc = "amount"
    /\ amount \in Amounts
    /\ validated = NotValidated
    /\ FileIdle /\ ClientIdle /\ RaceIdle
    /\ DateIdle /\ MetaIdle /\ StoreIdle /\ CacheIdle

ValidateAmount ==
    /\ pc = "amount"
    /\ validated' = validate_amount(amount)
    /\ pc' = "validated"
    /\ UNCHANGED amount /\ UNCHANGED fileVars /\ UNCHANGED clientVars
    /\ UNCHANGED raceVars
    /\ UNCHANGED dateVars /\ UNCHANGED metaVars
    /\ UNCHANGED storeVars /\ UNCHANGED cacheVars

SpecAmount == InitAmount /\ [][ValidateAmount]_vars

(***************************************************************************)
(* parse_client_data on small files                                        *)
(***************************************************************************)
AcmeCo == <<"A", "c", "m", "e", " ", "C", "o">>

MainSt == <<"1", " ", "M", "a", "i", "n", " ", "S", "t">>

EmailKey == <<"e", "m", "a", "i", "l">>

NotesKey == <<"n", "o", "t", "e", "s">>

\* what a field of the client may hold, Absent for a key that is not there
Absent == [t |-> "absent"]

NameValues == {Absent, JNull, JStr(<<>>), JStr(AcmeCo), JNum(0), JNum(5)}

AddressValues == {Absent, JNull, JStr(<<>>), JStr(MainSt), JArr(<<>>)}

\* the dict of the fields given that are there
DictOf(fields) ==
    JObj([k \in {k \in DOMAIN fields : fields[k] # Absent} |-> fields[k]])

Clients ==
    {DictOf(NameKey :> n @@ AddressKey :> a @@ EmailKey :> e) :
        n \in NameValues, a \in AddressValues,
        e \in {Absent, JStr(<<"a", "@", "b">>)}}
    \cup {Absent, JNull, JStr(AcmeCo), JArr(<<>>), JNum(5)}

Documents ==
    {DictOf(ClientKey :> c @@ NotesKey :> x) :
        c \in Clients, x \in {Absent, JStr(<<"n", "e", "t", " ", "3", "0">>)}}
    \cup {JNull, JNum(5), JBool(TRUE), JStr(ClientKey), JStr(AcmeCo),
          JArr(<<>>), JArr(<<JStr(ClientKey)>>)}

ClientFiles ==
    {NoClientFile,
     [exists |-> TRUE, utf8 |-> FALSE, json |-> FALSE, data |-> JNull],
     [exists |-> TRUE, utf8 |-> TRUE, json |-> FALSE, data |-> JNull]}
    \cup {[exists |-> TRUE, utf8 |-> TRUE, json |-> TRUE, data |-> d] :
             d \in Documents}

InitClient ==
    /\ pc = "client"
    /\ client_file \in ClientFiles
    /\ client_data = Raises("none", <<"not run">>)
    /\ FileIdle /\ AmountIdle /\ RaceIdle
    /\ DateIdle /\ MetaIdle /\ StoreIdle /\ CacheIdle

ParseClientData ==
    /\ pc = "client"
    /\ client_data' = parse_client_data(client_file)
    /\ pc' = "loaded"
    /\ UNCHANGED client_file /\ UNCHANGED fileVars /\ UNCHANGED amountVars
    /\ UNCHANGED raceVars
    /\ UNCHANGED dateVars /\ UNCHANGED metaVars
    /\ UNCHANGED storeVars /\ UNCHANGED cacheVars

SpecClient == InitClient /\ [][ParseClientData]_vars

(***************************************************************************)
(* create_invoice and import_invoice_from_files write by write.  A call    *)
(* carries the id of its invoice row and the number of writes it has       *)
(* committed; the process can stop before any of its steps, and another    *)
(* process then goes on with the store as it was left.                     *)
(***************************************************************************)
MaxWrites == 4

\* an item that passes the validation loop and cannot be stored, of amount 0
FreeItemWithoutDescription == [Item2 EXCEPT !.description = MissingText]

WriteItems ==
    {Item1, Item2, FreeItemWithoutDescription,
     [Item1 EXCEPT !.date = Str(<<"1", "3", "/", "4", "5", "/", "2", "0", "2", "5">>)],
     [Item1 EXCEPT !.date = MissingDate]}

\* lists of items that pass the validation loop, and one that does not
WriteItemLists ==
    SeqsUpTo(WriteItems, MaxItems) \cup {<<[Item1 EXCEPT !.quantity = Num(0)]>>}

WritesLeft == MaxWrites - (Len(invoices) + Len(invoice_items))

BeginCreateInvoice ==
    \E md \in MetadataInputs, its \in WriteItemLists :
        /\ WritesLeft >= 1 + Len(its)
        /\ Invoke([op |-> "create_invoice", customer_id |-> 1,
                   metadata |-> md, items |-> its,
                   invoice_id |-> 0, written |-> 0])

\* the files of FileInputs, and 3-15 with the month zero-padded
ImportFiles == FileInputs \cup {PathOf(Prefix \o <<"0", "3", "-", "1", "5">>)}

BeginImportInvoiceFromFiles ==
    \E c \in CustomerIds, f \in ImportFiles, its \in WriteItemLists :
        /\ WritesLeft >= 1 + Len(its)
        /\ Invoke([op |-> "import_invoice_from_files", customer_id |-> c,
                   invoice_data_file |-> f, items |-> its,
                   invoice_id |-> 0, written |-> 0])

\* the metadata create_invoice is called with
MetadataOfCall ==
    IF call.op = "create_invoice" THEN Ok(call.metadata)
    ELSE generate_invoice_metadata_from_filename(call.invoice_data_file, now)

\* the exception as it leaves the function called
Leaves(r) ==
    IF call.op = "import_invoice_from_files" THEN WrapImportError(r) ELSE r

\* the call ends with the exception r
Fails(r) ==
    /\ out' = Leaves(r)
    /\ pc' = "returned"
    /\ UNCHANGED <<customers, invoices, invoice_items, call>>

\* the write of r is committed
Commits(r) ==
    /\ customers' = r.db.customers
    /\ invoices' = r.db.invoices
    /\ invoice_items' = r.db.invoice_items
    /\ UNCHANGED out

WriteInvoiceRow ==
    /\ pc = "called"
    /\ LET md == MetadataOfCall
       IN IF ~md.ok THEN Fails(Raises("ValueError", md.err))
          ELSE LET r == CreateInvoiceRow(DB, call.customer_id, md.val, call.items)
               IN IF ~r.out.ok THEN Fails(r.out)
                  ELSE /\ Commits(r)
                       /\ pc' = "adding"
                       /\ call' = [call EXCEPT !.invoice_id = r.out.val,
                                               !.written = 1]
    /\ UNCHANGED dateVars /\ UNCHANGED metaVars
    /\ UNCHANGED cacheVars /\ UNCHANGED parseVars

WriteItemRow ==
    /\ pc = "adding"
    /\ call.written <= Len(call.items)
    /\ LET r == AddItemRow(DB, call.invoice_id, call.items[call.written])
       IN IF ~r.out.ok THEN Fails(r.out)
          ELSE /\ Commits(r)
               /\ call' = [call EXCEPT !.written = @ + 1]
               /\ UNCHANGED pc
    /\ UNCHANGED dateVars /\ UNCHANGED metaVars
    /\ UNCHANGED cacheVars /\ UNCHANGED parseVars

ReturnInvoiceId ==
    /\ pc = "adding"
    /\ call.written = Len(call.items) + 1
    /\ out' = Returns(call.invoice_id)
    /\ pc' = "returned"
    /\ UNCHANGED <<customers, invoices, invoice_items, call>>
    /\ UNCHANGED dateVars /\ UNCHANGED metaVars
    /\ UNCHANGED cacheVars /\ UNCHANGED parseVars

\* the process stops where it is
Stop ==
    /\ pc \in {"called", "adding"}
    /\ pc' = "stopped"
    /\ UNCHANGED <<customers, invoices, invoice_items, call, out>>
    /\ UNCHANGED dateVars /\ UNCHANGED metaVars
    /\ UNCHANGED cacheVars /\ UNCHANGED parseVars

\* another process starts on the store as the stopped one left it
Restart ==
    /\ pc = "stopped"
    /\ pc' = "idle"
    /\ call' = [op |-> "none"]
    /\ UNCHANGED <<customers, invoices, invoice_items, out>>
    /\ UNCHANGED dateVars /\ UNCHANGED metaVars
    /\ UNCHANGED cacheVars /\ UNCHANGED parseVars

NextWrite ==
    \/ BeginCreateInvoice \/ BeginImportInvoiceFromFiles
    \/ WriteInvoiceRow \/ WriteItemRow \/ ReturnInvoiceId
    \/ Stop \/ Restart \/ Resume

SpecWrites == InitStore /\ [][NextWrite]_vars

(***************************************************************************)
(* The customers table under Customer.create, Customer.get_by_name,        *)
(* Customer.upsert and Customer.import_from_json, one call after another   *)
(***************************************************************************)
\* the str of the store for the characters of a JSON string
TextOf(s) ==
    CASE s = AcmeCo -> "Acme Co"
      [] s = MainSt -> "1 Main St"
      [] OTHER      -> ""

\* d.get(key, "") or "" for a value that is a str or None
GetText(d, key) ==
    IF key \in DOMAIN d.m /\ Truth(d.m[key]) THEN TextOf(d.m[key].s) ELSE ""

Customer_import_from_json(db, json_data) ==
    LET client == IF ClientKey \in DOMAIN json_data.m
                  THEN json_data.m[ClientKey] ELSE JObj(<<>>)
    IN IF client.t # "object"
       THEN [db |-> db,
             out |-> Raises("AttributeError", <<"has no attribute 'get'">>)]
       ELSE Customer_upsert(db, GetText(client, NameKey),
                            GetText(client, AddressKey))

\* the documents handed to import_from_json
ImportDocuments ==
    {DictOf(ClientKey :> c) :
        c \in {DictOf(NameKey :> n @@ AddressKey :> a) :
                 n \in {Absent, JNull, JStr(AcmeCo)},
                 a \in {Absent, JStr(MainSt)}}
              \cup {Absent, JNull}}

InvokeCustomerGetByName ==
    \E n \in Names : Invoke([op |-> "Customer.get_by_name", name |-> n])

CustomerGetByName ==
    /\ pc = "called" /\ call.op = "Customer.get_by_name"
    /\ Complete([db |-> DB, out |-> Returns(Customer_get_by_name(DB, call.name))])

InvokeCustomerImportFromJson ==
    /\ RowsLeft >= 1
    /\ \E j \in ImportDocuments :
          Invoke([op |-> "Customer.import_from_json", json_data |-> j])

CustomerImportFromJson ==
    /\ pc = "called" /\ call.op = "Customer.import_from_json"
    /\ Complete(Customer_import_from_json(DB, call.json_data))

NextCustomers ==
    \/ InvokeCustomerCreate \/ CustomerCreate
    \/ InvokeCustomerGetByName \/ CustomerGetByName
    \/ InvokeCustomerUpsert \/ CustomerUpsert
    \/ InvokeCustomerImportFromJson \/ CustomerImportFromJson
    \/ Resume

SpecCustomers == InitStore /\ [][NextCustomers]_vars

(***************************************************************************)
(* Customer.upsert in two processes on one database file: the lookup and   *)
(* the insert or update are separate statements, each committed on its     *)
(* own, and the statements of the two processes interleave                 *)
(***************************************************************************)
MaxUpsertRows == 3

\* the calls of upsert that have not yet written
UpsertsInFlight ==
    Cardinality({p \in Processes : upserts[p].at \in {"lookup", "insert", "update"}})

UpsertStep(p, u) ==
    /\ upserts' = [upserts EXCEPT ![p] = u]
    /\ UNCHANGED <<invoices, invoice_items, call, out, pc>>
    /\ UNCHANGED dateVars /\ UNCHANGED metaVars /\ UNCHANGED cacheVars
    /\ UNCHANGED fileVars /\ UNCHANGED amountVars /\ UNCHANGED clientVars

\* Customer.upsert(name, address) is called in process p
UpsertCalled(p) ==
    /\ upserts[p].at = "idle"
    /\ Len(customers) + UpsertsInFlight < MaxUpsertRows
    /\ \E n \in Names, a \in Addresses :
          UpsertStep(p, [NotInUpsert EXCEPT !.at = "lookup", !.name = n,
                                            !.address = a])
    /\ UNCHANGED customers

\* customer = Customer.get_by_name(name)
UpsertLookup(p) ==
    /\ upserts[p].at = "lookup"
    /\ LET customer == Customer_get_by_name(DB, upserts[p].name)
       IN UpsertStep(p, [upserts[p] EXCEPT
                            !.customer = customer,
                            !.at = IF customer # NoCustomer
                                   THEN "update" ELSE "insert"])
    /\ UNCHANGED customers

\* UPDATE customers SET address = ? WHERE id = ?, commit, return customer.id
UpsertUpdate(p) ==
    /\ upserts[p].at = "update"
    /\ customers' = UpdateAddress(customers, upserts[p].customer.id,
                                  upserts[p].address)
    /\ UpsertStep(p, [upserts[p] EXCEPT !.at = "done",
                                        !.id = upserts[p].customer.id])

\* return Customer.create(name, address)
UpsertInsert(p) ==
    /\ upserts[p].at = "insert"
    /\ LET r == Customer_create(DB, upserts[p].name, upserts[p].address)
       IN /\ customers' = r.db.customers
          /\ UpsertStep(p, [upserts[p] EXCEPT !.at = "done", !.id = r.out.val])

\* the caller of process p goes on
UpsertReturned(p) ==
    /\ upserts[p].at = "done"
    /\ UpsertStep(p, NotInUpsert)
    /\ UNCHANGED customers

NextRace ==
    \E p \in Processes :
        \/ UpsertCalled(p) \/ UpsertLookup(p)
        \/ UpsertUpdate(p) \/ UpsertInsert(p)
        \/ UpsertReturned(p)

SpecRace == InitStore /\ [][NextRace]_vars

(***************************************************************************)
(* The calendar as the properties state it: day-by-day successor           *)
(***************************************************************************)
GregorianLeap(y) == y % 400 = 0 \/ (y % 4 = 0 /\ y % 100 # 0)

MonthLength(y, m) ==
    CASE m \in {4, 6, 9, 11} -> 30
      [] m = 2 -> IF GregorianLeap(y) THEN 29 ELSE 28
      [] OTHER -> 31

ValidDate(dt) == dt.y >= 1 /\ dt.m \in 1..12 /\ dt.d \in 1..MonthLength(dt.y, dt.m)

\* the first day of the month after dt's
NextMonth(dt) ==
    IF dt.m < 12 THEN [y |-> dt.y, m |-> dt.m + 1, d |-> 1]
    ELSE [y |-> dt.y + 1, m |-> 1, d |-> 1]

\* the date n days after dt, walking the calendar month by month
RECURSIVE DaysLater(_, _)
DaysLater(dt, n) ==
    IF dt.d + n <= MonthLength(dt.y, dt.m) THEN [dt EXCEPT !.d = dt.d + n]
    ELSE DaysLater(NextMonth(dt), n - (MonthLength(dt.y, dt.m) - dt.d + 1))

Two(n) == <<Digits[(n \div 10) + 1], Digits[(n % 10) + 1]>>

Four(n) == Two(n \div 100) \o Two(n % 100)

\* MM/DD/YYYY and YYYY.MM.DD
Display(dt) == Two(dt.m) \o <<"/">> \o Two(dt.d) \o <<"/">> \o Four(dt.y)

Dotted(y, m, d) == Four(y) \o <<".">> \o Two(m) \o <<".">> \o Two(d)

IsDisplay(s) ==
    /\ Len(s) = 10
    /\ s[3] = "/" /\ s[6] = "/"
    /\ \A i \in {1, 2, 4, 5, 7, 8, 9, 10} : IsDigit(s[i])

ReadDisplay(s) ==
    [y |-> StrToNat(SubSeq(s, 7, 10)), m |-> StrToNat(SubSeq(s, 1, 2)),
     d |-> StrToNat(SubSeq(s, 4, 5))]

\* the one or two spellings of a number below 100 in a file name
Spellings(n) == {Two(n)} \cup (IF n < 10 THEN {<<Digits[n + 1]>>} ELSE {})

\* what follows d/ and precedes .txt in the path under study
InputBody == SubSeq(file_in, 3, Len(file_in) - 4)

\* the base name is invoice-data-<M>-<D> for month m and day d
NamesMonthDay(body, m, d) ==
    \E ms \in Spellings(m), ds \in Spellings(d) :
        body = Prefix \o ms \o <<"-">> \o ds

(***************************************************************************)
(* C7: for a base name invoice-data-<M>-<D> with a valid month and day,    *)
(* the metadata has invoice_number <current year>.<MM>.<DD> and            *)
(* invoice_date <MM>/<DD>/<current year>, the year being that of the call. *)
(***************************************************************************)
MetadataUsesCurrentYear ==
    pc = "meta_done" =>
        \A m \in 1..12, d \in 1..31 :
            (ValidDate([y |-> now.y, m |-> m, d |-> d])
                /\ NamesMonthDay(InputBody, m, d))
            => /\ metadata.ok
               /\ metadata.val.invoice_number = Dotted(now.y, m, d)
               /\ metadata.val.invoice_date = Display([y |-> now.y, m |-> m, d |-> d])

(***************************************************************************)
(* C8: for a base name that does not start with invoice-data-, all three   *)
(* fields come from today's date: the number is today's YYYY.MM.DD, the    *)
(* invoice date is today and the due date is today plus 30 days.           *)
(***************************************************************************)
FallbackUsesToday ==
    (pc = "meta_done" /\ ~startswith(InputBody, Prefix)) =>
        /\ metadata.ok
        /\ metadata.val.invoice_number = Dotted(now.y, now.m, now.d)
        /\ metadata.val.invoice_date = Display(now)
        /\ metadata.val.due_date = Display(DaysLater(now, 30))

(***************************************************************************)
(* C9: for a base name that starts with invoice-data- and whose remainder  *)
(* is not exactly a valid month, "-", and a valid day, the function raises *)
(* an error containing "Invalid filename format" and returns no record.    *)
(***************************************************************************)
MalformedNameRaises ==
    (/\ pc = "meta_done"
     /\ startswith(InputBody, Prefix)
     /\ ~\E m \in 1..12, d \in 1..31 :
            /\ \E y \in {now.y, LiteralYear} : ValidDate([y |-> y, m |-> m, d |-> d])
            /\ NamesMonthDay(InputBody, m, d))
    => /\ ~metadata.ok
       /\ Contains(metadata.err, "Invalid filename format")

(***************************************************************************)
(* C10: calculate_due_date(d, n) is the date n days after d, zero-padded;  *)
(* with offset 0 it returns d; applying it with a and then b equals        *)
(* applying it with a + b; every metadata record has its due date 30 days  *)
(* after its invoice date.                                                 *)
(***************************************************************************)
DueDateIsCalendarSum ==
    /\ (pc = "date_done" /\ ValidDate(date_in)) =>
          /\ due.first.ok
          /\ due.first.val = Display(DaysLater(date_in, days_a))
          /\ (padded /\ days_a = 0) => due.first.val = DateString(date_in, padded)
          /\ due.second.ok /\ due.direct.ok
          /\ due.second.val = due.direct.val
          /\ due.direct.val = Display(DaysLater(date_in, days_a + days_b))
    /\ (pc = "meta_done" /\ metadata.ok) =>
          /\ IsDisplay(metadata.val.invoice_date)
          /\ ValidDate(ReadDisplay(metadata.val.invoice_date))
          /\ metadata.val.due_date =
                Display(DaysLater(ReadDisplay(metadata.val.invoice_date), 30))

\* 12/31/2025 plus 30 days crosses the year; a record came out of a file name
DueDateWitness ==
    /\ pc = "date_done"
    /\ date_in = [y |-> 2025, m |-> 12, d |-> 31] /\ days_a = 30 /\ days_b = 30
    /\ due.first.val = Display([y |-> 2026, m |-> 1, d |-> 30])
    /\ due.second.val = Display([y |-> 2026, m |-> 3, d |-> 1])

(***************************************************************************)
(* Properties of the store                                                 *)
(***************************************************************************)
Rows(table) == {table[i] : i \in 1..Len(table)}

StoreUnchanged ==
    /\ customers' = customers
    /\ invoices' = invoices
    /\ invoice_items' = invoice_items

\* the handler of operation op takes its step
Handles(ops) == pc = "called" /\ call.op \in ops

(***************************************************************************)
(* C1: no two rows of the invoices table have the same invoice_number,     *)
(* whatever calls were made and whether they succeeded or failed.          *)
(***************************************************************************)
InvoiceNumbersUnique ==
    \A i, j \in 1..Len(invoices) :
        i # j => invoices[i].invoice_number # invoices[j].invoice_number

\* two invoices are stored and a further create_invoice was turned down
InvoiceNumbersUniqueWitness ==
    /\ pc = "returned" /\ call.op = "create_invoice"
    /\ Len(invoices) = 2
    /\ ~out.ok /\ out.exc = "IntegrityError"

(***************************************************************************)
(* C2: Invoice.create with an invoice_number that already exists fails     *)
(* with a uniqueness error and leaves the store unchanged, so the invoice  *)
(* created before with that number keeps its customer, dates and total.    *)
(***************************************************************************)
DuplicateCreateFails ==
    [][(/\ Handles({"Invoice.create"})
        /\ \E r \in Rows(invoices) : r.invoice_number = call.details.invoice_number)
       => (/\ ~out'.ok
           /\ out'.exc = "IntegrityError"
           /\ StoreUnchanged)]_vars

\* the number was taken by an invoice of another customer, which is still there
DuplicateCreateWitness ==
    /\ pc = "returned" /\ call.op = "Invoice.create"
    /\ out.exc = "IntegrityError"
    /\ \E r \in Rows(invoices) :
          /\ r.invoice_number = call.details.invoice_number
          /\ r.customer_id # call.details.customer_id
          /\ r.total_amount # call.details.total_amount

(***************************************************************************)
(* C3: if the items passed to create_invoice or import_invoice_from_files  *)
(* contain, at any position, an item whose quantity is missing,            *)
(* non-numeric or <= 0, or whose rate is missing, non-numeric or < 0, the  *)
(* call raises an error and the tables are as they were before the call.   *)
(***************************************************************************)
ItemRejected(item) ==
    \/ item.quantity.t # "num"
    \/ item.quantity.v <= 0
    \/ item.rate.t # "num"
    \/ item.rate.v < 0

InvalidItemWritesNothing ==
    [][(/\ Handles({"create_invoice", "import_invoice_from_files"})
        /\ \E i \in 1..Len(call.items) : ItemRejected(call.items[i]))
       => (~out'.ok /\ StoreUnchanged)]_vars

\* a zero quantity in second position, after a valid item
InvalidItemWitness ==
    /\ pc = "returned" /\ call.op = "import_invoice_from_files"
    /\ Len(call.items) = 2
    /\ ~ItemRejected(call.items[1])
    /\ call.items[2].quantity = Num(0)
    /\ ~out.ok /\ Contains(out.err, "Invalid quantity for item")
    /\ invoices = <<>> /\ invoice_items = <<>>

(***************************************************************************)
(* C4: when create_invoice returns an id for n valid items, there is       *)
(* exactly one new invoice row, with that id and total_amount the sum of   *)
(* quantity*rate over the input items, and exactly n new item rows with    *)
(* that invoice_id, each with amount quantity*rate of its input item.      *)
(***************************************************************************)
RECURSIVE SumOf(_, _)
SumOf(f, n) == IF n = 0 THEN 0 ELSE SumOf(f, n - 1) + f[n]

ItemProducts(items) ==
    [k \in 1..Len(items) |-> items[k].quantity.v * items[k].rate.v]

\* the amounts of the stored item rows of invoice id, in rowid order
StoredAmounts(table, id) ==
    LET mine == SelectSeq(table, LAMBDA r : r.invoice_id = id)
    IN [k \in 1..Len(mine) |-> mine[k].amount]

NewRowsOfCreateInvoice ==
    LET id == out'.val
        n  == Len(call.items)
    IN /\ Len(invoices') = Len(invoices) + 1
       /\ SubSeq(invoices', 1, Len(invoices)) = invoices
       /\ invoices'[Len(invoices')].id = id
       /\ \A r \in Rows(invoices) : r.id # id
       /\ invoices'[Len(invoices')].total_amount =
              SumOf(ItemProducts(call.items), n)
       /\ Len(invoice_items') = Len(invoice_items) + n
       /\ SubSeq(invoice_items', 1, Len(invoice_items)) = invoice_items
       /\ \A k \in 1..n :
              LET row == invoice_items'[Len(invoice_items) + k]
              IN /\ row.invoice_id = id
                 /\ row.quantity = call.items[k].quantity.v
                 /\ row.rate = call.items[k].rate.v
                 /\ row.amount = call.items[k].quantity.v * call.items[k].rate.v

StoredTotalIsSumOfStoredItems ==
    LET id      == out'.val
        amounts == StoredAmounts(invoice_items', id)
    IN invoices'[Len(invoices')].total_amount = SumOf(amounts, Len(amounts))

\* as stated: the stored total equals the sum over all stored item rows of
\* that invoice
CreateInvoiceTotalMatchesItems ==
    [][(Handles({"create_invoice"}) /\ out'.ok)
       => (NewRowsOfCreateInvoice /\ StoredTotalIsSumOfStoredItems)]_vars

\* as amended: the sum is over the item rows of that invoice when no item
\* row carried the new invoice's id before the call
CreateInvoiceTotalMatchesNewItems ==
    [][(Handles({"create_invoice"}) /\ out'.ok)
       => /\ NewRowsOfCreateInvoice
          /\ (\A r \in Rows(invoice_items) : r.invoice_id # out'.val)
                => StoredTotalIsSumOfStoredItems]_vars

\* two items were stored under the new invoice, whose total is their sum
CreateInvoiceWitness ==
    /\ pc = "returned" /\ call.op = "create_invoice"
    /\ out.ok
    /\ call.items = <<Item2, Item1>>
    /\ \E r \in Rows(invoices) : r.id = out.val /\ r.total_amount = 6
    /\ Len(SelectSeq(invoice_items, LAMBDA r : r.invoice_id = out.val)) = 2

(***************************************************************************)
(* C5: upsert(name, address) of a name that some row has, compared         *)
(* exactly, sets that row's address, returns its id and adds no row;       *)
(* otherwise it inserts one row and returns the new id.  The id returned   *)
(* for a name is the same at every upsert of that name.                    *)
(***************************************************************************)
\* the id that upsert of this name returns: that of its earliest row
FirstIdOf(table, name) ==
    LET ids == {r.id : r \in {x \in Rows(table) : x.name = name}}
    IN IF ids = {} THEN 0 ELSE CHOOSE i \in ids : \A j \in ids : i <= j

UpsertUpdatesOrInserts ==
    [][/\ Handles({"Customer.upsert"}) =>
            LET named == {i \in 1..Len(customers) : customers[i].name = call.name}
            IN /\ out'.ok
               /\ out'.val = FirstIdOf(customers', call.name)
               /\ IF named # {}
                  THEN /\ Len(customers') = Len(customers)
                       /\ \E i \in named :
                            /\ out'.val = customers[i].id
                            /\ customers'[i] =
                                  [customers[i] EXCEPT !.address = call.address]
                            /\ \A j \in 1..Len(customers) :
                                  j # i => customers'[j] = customers[j]
                  ELSE /\ customers' =
                            Append(customers, [id |-> out'.val, name |-> call.name,
                                               address |-> call.address])
                       /\ \A r \in Rows(customers) : r.id # out'.val
       /\ \A n \in Names :
            FirstIdOf(customers, n) # 0
                => FirstIdOf(customers', n) = FirstIdOf(customers, n)]_vars

\* a second customer exists, so the id 1 returned is that of the row updated
UpsertWitness ==
    /\ pc = "returned" /\ call.op = "Customer.upsert"
    /\ Len(customers) = 2
    /\ customers[1].name = "Acme Co" /\ customers[2].name = "acme co"
    /\ call.name = "Acme Co" /\ call.address = "2 Side St"
    /\ out.val = 1
    /\ customers[1].address = "2 Side St"

(***************************************************************************)
(* C6: an invoice row or item row, once written, is never modified or      *)
(* removed; a customer row is never removed and keeps its id and name; the *)
(* only change to an existing row is a customer's address, by an upsert of *)
(* that customer's name.                                                   *)
(***************************************************************************)
RowsAreWriteOnce ==
    [][/\ \A r \in Rows(invoices) : r \in Rows(invoices')
       /\ \A r \in Rows(invoice_items) : r \in Rows(invoice_items')
       /\ \A r \in Rows(customers) :
            \E r2 \in Rows(customers') :
                /\ r2.id = r.id
                /\ r2.name = r.name
                /\ r2.address # r.address =>
                      (Handles({"Customer.upsert"}) /\ call.name = r.name)]_vars

\* an upsert has changed an address while invoice and item rows exist
RowsAreWriteOnceWitness ==
    /\ pc = "returned" /\ call.op = "Customer.upsert"
    /\ invoices # <<>> /\ invoice_items # <<>>
    /\ Len(customers) = 1
    /\ customers[1].address = call.address
    /\ call.address = "2 Side St"

(***************************************************************************)
(* The queries as the properties state them                                *)
(***************************************************************************)
\* the query op has just been answered
AnsweredBy(op) == pc = "answered" /\ call.op = op

ReadStorage(s) ==
    [y |-> StrToNat(SubSeq(s, 1, 4)), m |-> StrToNat(SubSeq(s, 6, 7)),
     d |-> StrToNat(SubSeq(s, 9, 10))]

\* a number that grows with the calendar date
Chron(dt) == (dt.y * 12 + dt.m) * 31 + dt.d

\* the invoice rows whose customer row exists
Listable ==
    {i \in Rows(invoices) : \E c \in Rows(customers) : c.id = i.customer_id}

\* list is in descending order of invoice_date
LatestFirst(list) ==
    \A k \in 1..(Len(list) - 1) :
        Chron(list[k].invoice_date) >= Chron(list[k + 1].invoice_date)

\* list shows each invoice of the set wanted once, and nothing else
ShowsExactly(list, wanted) ==
    /\ Len(list) = Cardinality(wanted)
    /\ {r.id : r \in Rows(list)} = {i.id : i \in wanted}
    /\ \A r \in Rows(list) : \E i \in wanted :
          /\ r.id = i.id
          /\ r.invoice_number = i.invoice_number
          /\ r.invoice_date = ReadStorage(i.invoice_date)
          /\ r.total_amount = i.total_amount

(***************************************************************************)
(* C11: get_data / get_invoice_data(id) returns a value (it does not       *)
(* raise) and leaves the three tables unchanged; the value is the nested   *)
(* record of the invoice exactly when an invoice row with that id, its     *)
(* customer row and its vendor row exist, and None otherwise.              *)
(***************************************************************************)
GetDataResolvesOrNone ==
    [][(pc = "store" /\ pc' = "answered" /\ call'.op = "Invoice.get_data") =>
        /\ StoreUnchanged
        /\ out'.ok
        /\ LET id == call'.invoice_id
               resolved ==
                   {<<i, c, v>> \in Rows(invoices) \X Rows(customers) \X Rows(Vendors) :
                        i.id = id /\ c.id = i.customer_id /\ v.id = i.vendor_id}
           IN IF resolved = {} THEN out'.val = None
              ELSE /\ out'.val # None
                   /\ \E t \in resolved :
                        /\ out'.val.invoice_number = t[1].invoice_number
                        /\ out'.val.total = t[1].total_amount
                        /\ out'.val.client.name = t[2].name
                        /\ out'.val.company.name = t[3].name]_vars

\* the invoice row exists, its customer row does not, and None is returned
GetDataWitness ==
    /\ AnsweredBy("Invoice.get_data")
    /\ \E i \in Rows(invoices) :
          /\ i.id = call.invoice_id
          /\ \A c \in Rows(customers) : c.id # i.customer_id
    /\ customers # <<>>
    /\ out.val = None

(***************************************************************************)
(* C12: the items of the record returned for invoice i are exactly the     *)
(* item rows whose invoice_id is i, each once, in ascending order of work  *)
(* date, whatever the order of the rows in the table.                      *)
(***************************************************************************)
ItemsAreTheInvoicesByDate ==
    (AnsweredBy("Invoice.get_data") /\ out.ok /\ out.val # None) =>
        LET items == out.val.items
            mine  == {n \in 1..Len(invoice_items) :
                        invoice_items[n].invoice_id = call.invoice_id}
        IN /\ Len(items) = Cardinality(mine)
           /\ \E f \in [1..Len(items) -> mine] :
                /\ \A j, k \in 1..Len(items) : j # k => f[j] # f[k]
                /\ \A k \in 1..Len(items) :
                     /\ items[k].date = ReadStorage(invoice_items[f[k]].work_date)
                     /\ items[k].description = invoice_items[f[k]].description
                     /\ items[k].quantity = invoice_items[f[k]].quantity
                     /\ items[k].rate = invoice_items[f[k]].rate
                     /\ items[k].amount = invoice_items[f[k]].amount
           /\ \A k \in 1..(Len(items) - 1) :
                Chron(items[k].date) <= Chron(items[k + 1].date)

\* two items of the invoice stored latest first come back earliest first
ItemsWitness ==
    /\ AnsweredBy("Invoice.get_data") /\ out.val # None
    /\ Len(invoice_items) = 2
    /\ invoice_items[1].invoice_id = call.invoice_id
    /\ invoice_items[2].invoice_id = call.invoice_id
    /\ Chron(ReadStorage(invoice_items[1].work_date))
          > Chron(ReadStorage(invoice_items[2].work_date))
    /\ Len(out.val.items) = 2
    /\ out.val.items[1].date = ReadStorage(invoice_items[2].work_date)

(***************************************************************************)
(* C13: list_all() and list_all(None) return one summary row for every     *)
(* invoice; list_all(c) returns one for every invoice whose customer_id is *)
(* c and for no other, the empty list when there is none; both in          *)
(* descending order of invoice_date.                                       *)
(***************************************************************************)
ListAllShowsTheCustomersInvoices ==
    AnsweredBy("Invoice.list_all") =>
        LET c == call.customer_id
            wanted == IF c.given THEN {i \in Rows(invoices) : i.customer_id = c.v}
                      ELSE Rows(invoices)
        IN /\ out.ok
           /\ ShowsExactly(out.val, wanted)
           /\ LatestFirst(out.val)

(***************************************************************************)
(* C14: get_recent(n) returns min(n, number of listable invoices) summary  *)
(* rows, those of the latest invoice_date, latest first; the empty list    *)
(* for n = 0 and for an empty store; the dashboard shows get_recent(3).    *)
(***************************************************************************)
RecentOf(list, n) ==
    /\ Len(list) = (IF n < Cardinality(Listable) THEN n ELSE Cardinality(Listable))
    /\ \E shown \in SUBSET Listable :
          /\ ShowsExactly(list, shown)
          /\ \A i \in shown : \A j \in Listable \ shown :
                Chron(ReadStorage(i.invoice_date)) >= Chron(ReadStorage(j.invoice_date))
    /\ LatestFirst(list)
    /\ (n = 0 \/ invoices = <<>>) => list = <<>>

GetRecentReturnsLatest ==
    /\ AnsweredBy("Invoice.get_recent") => out.ok /\ RecentOf(out.val, call.limit)
    /\ AnsweredBy("dashboard") => out.ok /\ RecentOf(out.val, 3)

\* four listable invoices, stored in another order than by date: the
\* dashboard shows the three latest
GetRecentWitness ==
    /\ AnsweredBy("dashboard")
    /\ Cardinality(Listable) = 4
    /\ Len(out.val) = 3
    /\ Chron(ReadStorage(invoices[1].invoice_date))
          < Chron(ReadStorage(invoices[2].invoice_date))
    /\ \E r \in Rows(out.val) : r.id = 4

(***************************************************************************)
(* The connection cache as the properties state it                         *)
(***************************************************************************)
OpenConnections == {c \in 1..Len(connections) : connections[c].open}

\* the last call made on db.py
LastCall == calls[Len(calls)]

\* the step is a call of one of ops
CallOf(ops) == Len(calls') = Len(calls) + 1 /\ calls'[Len(calls')].op \in ops

\* the calls i and j, i before j, are get_db_connection calls with no
\* close_db and no reset_db between them
GetAndGetAgain(i, j) ==
    /\ i < j
    /\ calls[i].op = "get_db_connection" /\ calls[j].op = "get_db_connection"
    /\ \A k \in (i + 1)..(j - 1) : calls[k].op \notin {"close_db", "reset_db"}

(***************************************************************************)
(* C15: at most one connection is open at any time, and it is the cached   *)
(* one; a connection object is made only in a get_db_connection call (the  *)
(* one init_db makes included) that finds no connection cached; two        *)
(* get_db_connection calls with no close_db or reset_db between them       *)
(* return the same connection object.                                      *)
(***************************************************************************)
OneCachedConnection ==
    /\ [](/\ Cardinality(OpenConnections) <= 1
          /\ OpenConnections \subseteq {db_connection}
          /\ \A i, j \in 1..Len(calls) :
                GetAndGetAgain(i, j) => calls[i].out.val = calls[j].out.val)
    /\ [][Len(connections') # Len(connections) =>
            /\ CallOf({"get_db_connection", "init_db"})
            /\ db_connection = NoConnection
            /\ Len(connections') = Len(connections) + 1
            /\ db_connection' = Len(connections')]_vars

\* get_db_connection, init_db on another path, get_db_connection: the same
\* object twice, the only one made
OneCachedConnectionWitness ==
    /\ Len(calls) = 3
    /\ GetAndGetAgain(1, 3)
    /\ calls[2].op = "init_db" /\ calls[2].path # "invoices.db"
    /\ calls[1].out.val = calls[3].out.val
    /\ Len(connections) = 1

(***************************************************************************)
(* C16: close_db closes the cached connection and empties the cache, so    *)
(* that the next get_db_connection makes a new connection; with nothing    *)
(* cached it changes nothing; it never raises.                             *)
(***************************************************************************)
CloseDbClosesAndClears ==
    [][/\ CallOf({"close_db"}) =>
            /\ calls'[Len(calls')].out.ok
            /\ db_connection' = NoConnection
            /\ db_path' = db_path
            /\ Len(connections') = Len(connections)
            /\ \A c \in 1..Len(connections) :
                  /\ connections'[c].path = connections[c].path
                  /\ connections'[c].open = (connections[c].open /\ c # db_connection)
            /\ db_connection = NoConnection => connections' = connections
       /\ (CallOf({"get_db_connection"}) /\ calls # <<>> /\ LastCall.op = "close_db") =>
            /\ calls'[Len(calls')].out.val = Len(connections) + 1
            /\ Len(connections') = Len(connections) + 1
            /\ connections'[Len(connections')].open
            /\ \A c \in 1..Len(connections) : ~connections'[c].open]_vars

\* get_db_connection, close_db twice, get_db_connection: the first object is
\* closed, the second is another one
CloseDbWitness ==
    /\ Len(calls) = 4
    /\ calls[1].op = "get_db_connection"
    /\ calls[2].op = "close_db" /\ calls[3].op = "close_db"
    /\ calls[4].op = "get_db_connection"
    /\ calls[4].out.val # calls[1].out.val
    /\ ~connections[calls[1].out.val].open
    /\ connections[calls[4].out.val].open

(***************************************************************************)
(* C17: reset_db(p) closes the cached connection, empties the cache and    *)
(* records p, so that the next get_db_connection returns a connection      *)
(* object that no earlier call returned, opened on p.                      *)
(***************************************************************************)
ResetDbClosesAndRecordsPath ==
    [][/\ CallOf({"reset_db"}) =>
            /\ db_path' = calls'[Len(calls')].path
            /\ db_connection' = NoConnection
            /\ OpenConnections' = {}
            /\ Len(connections') = Len(connections)
       /\ (CallOf({"get_db_connection"}) /\ calls # <<>> /\ LastCall.op = "reset_db") =>
            LET got == calls'[Len(calls')].out.val
            IN /\ got \notin 1..Len(connections)
               /\ \A k \in 1..Len(calls) : calls[k].out.val # got
               /\ connections'[got].path = LastCall.path
               /\ connections'[got].open]_vars

\* a connection on the default path, reset_db to another path,
\* get_db_connection: another object, on the new path
ResetDbWitness ==
    /\ Len(calls) = 3
    /\ calls[1].op = "get_db_connection"
    /\ calls[2].op = "reset_db" /\ calls[2].path = "test.db"
    /\ calls[3].op = "get_db_connection"
    /\ calls[3].out.val # calls[1].out.val
    /\ connections[calls[1].out.val].path = "invoices.db"
    /\ ~connections[calls[1].out.val].open
    /\ connections[calls[3].out.val].path = "test.db"

(***************************************************************************)
(* parse_invoice_data, seen from the file: what each line of the files     *)
(* tried is, written out by hand                                           *)
(***************************************************************************)
Ink(line) == {i \in 1..Len(line) : line[i] \notin {" ", "\t", "\n"}}

\* the number of fields the line splits into on tab, as it stands in the file
RawFields(line) ==
    1 + Cardinality({i \in 1..Len(line) : line[i] = "\t"})

\* the same, once the white space around the line is taken off
StrippedFields(line) ==
    IF Ink(line) = {} THEN 0
    ELSE LET from == CHOOSE i \in Ink(line) : \A j \in Ink(line) : i <= j
             to   == CHOOSE i \in Ink(line) : \A j \in Ink(line) : j <= i
         IN 1 + Cardinality({i \in from..to : line[i] = "\t"})

\* 3/15/2025, 2 hours, 100: 50 an hour
DevItem ==
    [date        |-> <<"0", "3", "/", "1", "5", "/", "2", "0", "2", "5">>,
     description |-> <<"D", "e", "v">>,
     quantity    |-> [num |-> 2, den |-> 1],
     rate        |-> [num |-> 50, den |-> 1]]

\* 03/16/2025, 1.5 hours, $1,200.00: 800 an hour
TestItem ==
    [date        |-> <<"0", "3", "/", "1", "6", "/", "2", "0", "2", "5">>,
     description |-> <<"T", "e", "s", "t">>,
     quantity    |-> [num |-> 3, den |-> 2],
     rate        |-> [num |-> 800, den |-> 1]]

\* the item the four fields of EmptyDescriptionLine stand for
EmptyDescriptionItem ==
    [date        |-> <<"0", "3", "/", "1", "5", "/", "2", "0", "2", "5">>,
     description |-> <<>>,
     quantity    |-> [num |-> 2, den |-> 1],
     rate        |-> [num |-> 50, den |-> 1]]

ItemOfLine(line) ==
    IF line = DevLine THEN DevItem
    ELSE IF line = TestLine THEN TestItem
    ELSE EmptyDescriptionItem

\* what is wrong with a line of four fields that does not validate
FaultOfLine(line) ==
    IF line = NegativeAmountLine THEN "Invalid amount"
    ELSE IF line = BadDateLine THEN "Invalid date"
    ELSE "Invalid quantity"

FailsValidation(line) ==
    line \in {ZeroQuantityLine, NegativeAmountLine, BadDateLine, HeaderLine}

\* the physical line numbers of the file, from 1, less the header row
DataLineNumbers ==
    {k \in 1..Len(file.lines) : ~(k = 1 /\ file.lines[1] = HeaderLine)}

RECURSIVE ItemsOfLines(_, _)
ItemsOfLines(numbers, k) ==
    IF k > Len(file.lines) THEN <<>>
    ELSE (IF k \in numbers THEN <<ItemOfLine(file.lines[k])>> ELSE <<>>)
         \o ItemsOfLines(numbers, k + 1)

ParsedFile == pc = "parsed" /\ file.exists

\* the numbers of the non-empty lines with fewer than four fields
ShortLineNumbers ==
    {k \in 1..Len(file.lines) :
        file.lines[k] # <<>> /\ RawFields(file.lines[k]) < 4}

InvalidLineBetweenValidFails ==
    (/\ ParsedFile
     /\ Len(file.lines) = 3
     /\ file.lines[1] \in {DevLine, TestLine}
     /\ file.lines[2] = NoTabLine
     /\ file.lines[3] \in {DevLine, TestLine})
        => /\ ~parsed.ok
           /\ Contains(parsed.err, "Error parsing line")

\* the outcome for a file whose lines of four or more fields are those
\* numbered in fourField: the first of them that fails validation is
\* reported and nothing after it is taken up
StopsAtFirstBadLine(fourField) ==
    LET bad == {k \in fourField : FailsValidation(file.lines[k])}
        first == CHOOSE k \in bad : \A j \in bad : k <= j
    IN bad # {} =>
          /\ ~parsed.ok
          /\ parsed.exc = "ValueError"
          /\ Contains(parsed.err, "Error parsing line")
          /\ Contains(parsed.err, FaultOfLine(file.lines[first]))
          /\ parsed.line = first
          /\ parsed.last = first
          /\ parsed.val = <<>>

NoBadLine(fourField) ==
    \A k \in fourField : ~FailsValidation(file.lines[k])

(***************************************************************************)
(* C20, as stated: with a line of four or more fields that fails           *)
(* validation the parse raises for the first such line, naming its         *)
(* physical line number, returning nothing and leaving the later lines     *)
(* alone; otherwise it returns the items of all lines with four or more    *)
(* fields, in file order.                                                  *)
(***************************************************************************)
ParseReturnsItemsOfFourFieldLines ==
    ParsedFile =>
        LET fourField == {k \in DataLineNumbers : RawFields(file.lines[k]) >= 4}
        IN /\ StopsAtFirstBadLine(fourField)
           /\ NoBadLine(fourField) =>
                 /\ parsed.ok
                 /\ parsed.val = ItemsOfLines(fourField, 1)

(***************************************************************************)
(* C20, amended: the fields of a line are counted once the white space     *)
(* around the line is taken off. With a line of four or more such fields   *)
(* that fails validation the parse raises for the first such line, naming  *)
(* its physical line number, returning nothing and leaving the later lines *)
(* alone; otherwise it returns the items of all lines with four or more    *)
(* such fields, in file order, when there is one, and fails with "No valid *)
(* invoice items found" when there is none.                                *)
(***************************************************************************)
ParseStopsAtFirstBadLine ==
    ParsedFile =>
        LET fourField == {k \in DataLineNumbers :
                             StrippedFields(file.lines[k]) >= 4}
        IN /\ StopsAtFirstBadLine(fourField)
           /\ NoBadLine(fourField) =>
                 IF fourField = {}
                 THEN /\ ~parsed.ok
                      /\ parsed.exc = "ValueError"
                      /\ Contains(parsed.err, "No valid invoice items found")
                      /\ parsed.val = <<>>
                 ELSE /\ parsed.ok
                      /\ parsed.val = ItemsOfLines(fourField, 1)

\* the header row, a line with zero hours and a line with a bad date: the
\* error names line 2
FirstBadLineWitness ==
    /\ ParsedFile
    /\ file.lines = <<HeaderLine, ZeroQuantityLine, BadDateLine>>
    /\ ~parsed.ok
    /\ parsed.line = 2
    /\ Contains(parsed.err, "Invalid quantity")

\* the file gives no item: each of its lines is the header row, blank, or
\* has fewer than four fields
YieldsNoItem ==
    \A k \in DataLineNumbers :
        Ink(file.lines[k]) = {} \/ RawFields(file.lines[k]) < 4

(***************************************************************************)
(* C21: parse_invoice_data never returns an empty list: a missing file     *)
(* fails with the not-found error before a line is read, an existing file  *)
(* that gives no item fails with "No valid invoice items found", and every *)
(* list returned has an item.                                              *)
(***************************************************************************)
ParseNeverReturnsEmpty ==
    pc = "parsed" =>
        /\ ~file.exists =>
              /\ ~parsed.ok
              /\ parsed.exc = "FileNotFoundError"
              /\ Contains(parsed.err, "Invoice data file not found")
              /\ parsed.last = 0
        /\ (file.exists /\ YieldsNoItem) =>
              /\ ~parsed.ok
              /\ parsed.exc = "ValueError"
              /\ Contains(parsed.err, "No valid invoice items found")
        /\ parsed.ok => parsed.val # <<>>

\* the header row, a blank line and a line of three fields: no item
NoItemWitness ==
    /\ ParsedFile
    /\ file.lines = <<HeaderLine, BlankLine, ThreeFieldLine>>
    /\ ~parsed.ok
    /\ Contains(parsed.err, "No valid invoice items found")

(***************************************************************************)
(* validate_amount, seen from its argument                                 *)
(***************************************************************************)
NotCurrency(c) == c \notin {"$", ","}

\* the argument without "$" and ",", and without the white space around it
CleanedAmount ==
    LET kept == SelectSeq(amount, NotCurrency)
    IN IF Ink(kept) = {} THEN <<>>
       ELSE LET from == CHOOSE i \in Ink(kept) : \A j \in Ink(kept) : i <= j
                to   == CHOOSE i \in Ink(kept) : \A j \in Ink(kept) : j <= i
            IN SubSeq(kept, from, to)

\* the cleaned argument is a decimal numeral: an optional "-", then digits
\* with at most one point among them
Unsigned(c) == IF c # <<>> /\ c[1] = "-" THEN Tail(c) ELSE c

IsNumeral(c) ==
    LET u == Unsigned(c)
    IN /\ \A i \in 1..Len(u) : IsDigit(u[i]) \/ u[i] = "."
       /\ Cardinality({i \in 1..Len(u) : u[i] = "."}) <= 1
       /\ \E i \in 1..Len(u) : IsDigit(u[i])

\* the digits of the numeral c read as a whole number, and the number of
\* its digits after the point
NumeralDigits(c) == StrToNat(SelectSeq(Unsigned(c), IsDigit))

NumeralScale(c) ==
    LET u == Unsigned(c)
    IN Cardinality({i \in 1..Len(u) : \E j \in 1..(i - 1) : u[j] = "."})

IsNegativeNumeral(c) ==
    IsNumeral(c) /\ c[1] = "-" /\ NumeralDigits(c) > 0

(***************************************************************************)
(* C22: validate_amount(s) returns a value >= 0, the numeric value of s    *)
(* without "$", "," and the surrounding white space, or fails with the     *)
(* validation error; it fails when the cleaned string is empty, not        *)
(* numeric or negative, accepts zero and never returns a negative value.   *)
(***************************************************************************)
ValidateAmountReturnsTheValue ==
    pc = "validated" =>
        LET c == CleanedAmount
        IN /\ (IsNumeral(c) /\ ~IsNegativeNumeral(c)) =>
                 /\ validated.ok
                 /\ validated.val.den > 0 /\ validated.val.num >= 0
                 /\ validated.val.num * Pow10(NumeralScale(c))
                       = validated.val.den * NumeralDigits(c)
           /\ (~IsNumeral(c) \/ IsNegativeNumeral(c)) =>
                 /\ ~validated.ok
                 /\ Contains(validated.err, "Invalid amount")
           /\ validated.ok => (validated.val.den > 0 /\ validated.val.num >= 0)

(***************************************************************************)
(* C23: validate_amount of a negative amount fails with an error whose     *)
(* message contains "Amount cannot be negative".                           *)
(***************************************************************************)
NegativeAmountIsNamed ==
    (pc = "validated" /\ IsNegativeNumeral(CleanedAmount)) =>
        /\ ~validated.ok
        /\ Contains(validated.err, "Amount cannot be negative")

(***************************************************************************)
(* parse_client_data, seen from the file                                   *)
(***************************************************************************)
\* the value is empty
Blank(v) ==
    v \in {JNull, JBool(FALSE), JNum(0), JStr(<<>>), JArr(<<>>), JObj(<<>>)}

\* the field key of the dict x is missing or empty; so it is when x is no dict
MissingOrEmpty(x, key) ==
    \/ x.t # "object"
    \/ key \notin DOMAIN x.m
    \/ Blank(x.m[key])

\* the part of the message of the one error the file calls for, "" for none
ExpectedClientError ==
    LET f == client_file
    IN IF ~f.exists THEN "Client file not found"
       ELSE IF ~f.utf8 \/ ~f.json THEN "Invalid JSON"
       ELSE IF f.data.t # "object" \/ ClientKey \notin DOMAIN f.data.m
       THEN "Client data missing 'client' field"
       ELSE IF MissingOrEmpty(f.data.m[ClientKey], NameKey)
       THEN "Client name is required"
       ELSE IF MissingOrEmpty(f.data.m[ClientKey], AddressKey)
       THEN "Client address is required"
       ELSE ""

(***************************************************************************)
(* C24: parse_client_data reports one error per bad input, the first that  *)
(* applies of: the not-found error for a missing file, "Invalid JSON" for  *)
(* unparsable content, "missing 'client' field" without a top-level client *)
(* key, "Client name is required" and "Client address is required" for a   *)
(* missing or empty name or address; when none applies it returns the      *)
(* parsed document as it is.                                               *)
(***************************************************************************)
ClientErrorsInOrder ==
    pc = "loaded" =>
        IF ExpectedClientError = ""
        THEN client_data.ok /\ client_data.val = client_file.data
        ELSE /\ ~client_data.ok
             /\ client_data.err = <<ExpectedClientError>>
             /\ client_data.exc = (IF client_file.exists THEN "ValueError"
                                   ELSE "FileNotFoundError")

(***************************************************************************)
(* create_invoice write by write, seen from the store                      *)
(***************************************************************************)
\* the call in progress, ended or stopped has committed its invoice row
InvoiceRowWritten ==
    /\ pc \in {"adding", "stopped", "returned"}
    /\ call.op \in {"create_invoice", "import_invoice_from_files"}
    /\ call.written >= 1

\* the invoice rows with the id the call was given
InvoiceRowsOfCall == {r \in Rows(invoices) : r.id = call.invoice_id}

\* the item rows of the invoice of the call, in rowid order
ItemRowsOfCall == SelectSeq(invoice_items, LAMBDA r : r.invoice_id = call.invoice_id)

\* the item row stands for the item of the input
RowOfItem(row, item) ==
    /\ row.quantity = item.quantity.v
    /\ row.rate = item.rate.v
    /\ row.amount = item.quantity.v * item.rate.v
    /\ row.description = item.description.v

\* the store holds the invoice row with the full total and the first n items
HoldsInvoiceAndFirstItems(n) ==
    /\ Cardinality(InvoiceRowsOfCall) = 1
    /\ \A r \in InvoiceRowsOfCall :
          r.total_amount = SumOf(ItemProducts(call.items), Len(call.items))
    /\ Len(ItemRowsOfCall) = n
    /\ \A j \in 1..n : RowOfItem(ItemRowsOfCall[j], call.items[j])

NoItemRowWithoutInvoiceRow ==
    \A r \in Rows(invoice_items) : \E i \in Rows(invoices) : i.id = r.invoice_id

(***************************************************************************)
(* C25: create_invoice commits one row at a time, the invoice row with the *)
(* full total first, then the item rows in input order: after the k-th     *)
(* committed write (k >= 1) the store holds the invoice row and the first  *)
(* k-1 items, wherever the process stops; no item row is ever stored whose *)
(* invoice row is absent.                                                  *)
(***************************************************************************)
WritesAreCommittedInOrder ==
    /\ [](/\ InvoiceRowWritten => HoldsInvoiceAndFirstItems(call.written - 1)
          /\ NoItemRowWithoutInvoiceRow)
    /\ [][/\ Len(invoices') + Len(invoice_items')
                <= Len(invoices) + Len(invoice_items) + 1
          /\ Len(invoices') >= Len(invoices)
          /\ SubSeq(invoices', 1, Len(invoices)) = invoices
          /\ Len(invoice_items') >= Len(invoice_items)
          /\ SubSeq(invoice_items', 1, Len(invoice_items)) = invoice_items
          /\ Len(invoices') > Len(invoices) => (pc = "called" /\ call'.written = 1)
          /\ Len(invoice_items') > Len(invoice_items) =>
                (pc = "adding" /\ call'.written = call.written + 1)
          /\ pc' = "stopped" => StoreUnchanged]_vars

\* the process stopped after its first write: an invoice row with a total
\* and no item row
StoppedAfterInvoiceRowWitness ==
    /\ pc = "stopped"
    /\ call.written = 1
    /\ Len(call.items) = 2
    /\ \E r \in InvoiceRowsOfCall : r.total_amount > 0
    /\ ItemRowsOfCall = <<>>

\* 13/45/2025
Month13Date == <<"1", "3", "/", "4", "5", "/", "2", "0", "2", "5">>

\* the item has no date, a malformed date or no description
CannotBeStored(item) ==
    \/ item.date.t = "missing"
    \/ item.date.v = Month13Date
    \/ item.description.t = "missing"

\* the call has come back, all its items pass the validation of quantity
\* and rate, and one of them cannot be stored
CameBackWithBadItem ==
    /\ pc = "returned"
    /\ call.op \in {"create_invoice", "import_invoice_from_files"}
    /\ \A i \in 1..Len(call.items) : ~ItemRejected(call.items[i])
    /\ \E i \in 1..Len(call.items) : CannotBeStored(call.items[i])

\* the number of items before the first that cannot be stored
ItemsBeforeBad ==
    LET bad == {i \in 1..Len(call.items) : CannotBeStored(call.items[i])}
    IN (CHOOSE i \in bad : \A j \in bad : i <= j) - 1

\* the call raised: the error of the item for create_invoice, the wrapped
\* validation error for import_invoice_from_files
RaisedForItem ==
    /\ ~out.ok
    /\ call.op = "create_invoice" => out.exc \in {"KeyError", "ValueError"}
    /\ call.op = "import_invoice_from_files" =>
          /\ out.exc = "ValueError"
          /\ Contains(out.err, "Error importing invoice from files")

\* the total of the invoice row of the call, and the sum of the amounts of
\* its item rows
StoredTotalOfCall == (CHOOSE r \in InvoiceRowsOfCall : TRUE).total_amount

StoredAmountsOfCall ==
    SumOf([j \in 1..Len(ItemRowsOfCall) |-> ItemRowsOfCall[j].amount],
          Len(ItemRowsOfCall))

\* the amounts of the items of the input from position n + 1 on
AmountsFrom(n) ==
    SumOf(ItemProducts(call.items), Len(call.items))
        - SumOf(ItemProducts(call.items), n)

CallNamesMonthDay(m, d) ==
    NamesMonthDay(SubSeq(call.invoice_data_file, 3,
                         Len(call.invoice_data_file) - 4), m, d)

\* an invoice row carries the number an import makes of month m and day d
NumberOfDayStored(m, d) ==
    \E r \in Rows(invoices) : r.invoice_number = Dotted(LiteralYear, m, d)

\* import_invoice_from_files of a file of month m and day d comes back
ImportOfDayComesBack(m, d) ==
    /\ pc = "called" /\ call.op = "import_invoice_from_files"
    /\ pc' = "returned"
    /\ CallNamesMonthDay(m, d)

\* an import that wrote its invoice row has stored the number of its day
ImportStoresNumberOfDay ==
    (pc = "called" /\ call.op = "import_invoice_from_files" /\ pc' = "adding")
    => \A m \in 1..12, d \in 1..31 :
          CallNamesMonthDay(m, d)
          => /\ NumberOfDayStored(m, d)'
             /\ (CHOOSE r \in Rows(invoices') :
                    r.id = call'.invoice_id).invoice_number
                   = Dotted(LiteralYear, m, d)

RaisedUniquenessError ==
    /\ ~out'.ok
    /\ out'.exc = "IntegrityError"
    /\ Contains(out'.err, "UNIQUE constraint failed: invoices.invoice_number")
    /\ ~Contains(out'.err, "Error importing invoice from files")

(***************************************************************************)
(* C27, as stated: the invoice number of an import depends only on the     *)
(* month and day of the file name; once the number of a month and day is   *)
(* stored, every later import of a file of the same month and day, for any *)
(* customer and any items, fails with the uniqueness error of the store,   *)
(* not wrapped, and adds no row.                                           *)
(***************************************************************************)
EveryLaterImportOfDayHitsUniqueness ==
    [][/\ ImportStoresNumberOfDay
       /\ (pc = "called" /\ pc' = "returned") =>
          \A m \in 1..12, d \in 1..31 :
             (ImportOfDayComesBack(m, d) /\ NumberOfDayStored(m, d))
             => (RaisedUniquenessError /\ StoreUnchanged)]_vars

(***************************************************************************)
(* C27, amended: the invoice number of an import depends only on the month *)
(* and day of the file name; once the number of a month and day is stored, *)
(* every later import of a file of the same month and day, for any         *)
(* customer, adds no row and fails: with the uniqueness error of the       *)
(* store, not wrapped, when all its items pass the validation of quantity  *)
(* and rate, and with the wrapped validation error when one does not.      *)
(***************************************************************************)
LaterImportOfDayFails ==
    [][/\ ImportStoresNumberOfDay
       /\ (pc = "called" /\ pc' = "returned") =>
          \A m \in 1..12, d \in 1..31 :
             (ImportOfDayComesBack(m, d) /\ NumberOfDayStored(m, d))
             => /\ StoreUnchanged
                /\ IF \A i \in 1..Len(call.items) : ~ItemRejected(call.items[i])
                   THEN RaisedUniquenessError
                   ELSE /\ ~out'.ok
                        /\ out'.exc = "ValueError"
                        /\ Contains(out'.err, "Error importing invoice from files")
                        /\ \/ Contains(out'.err, "Invalid quantity for item")
                           \/ Contains(out'.err, "Invalid rate for item")]_vars

\* the number of March 15 is stored for customer 1, and the import of the
\* file with the month zero-padded, for customer 2 and with other items, has
\* failed with the uniqueness error
SecondImportWitness ==
    /\ pc = "returned"
    /\ call.op = "import_invoice_from_files"
    /\ call.customer_id = 2
    /\ call.invoice_data_file = PathOf(Prefix \o <<"0", "3", "-", "1", "5">>)
    /\ call.items = <<Item2>>
    /\ ~out.ok /\ out.exc = "IntegrityError"
    /\ \E r \in Rows(invoices) :
          /\ r.invoice_number = Dotted(LiteralYear, 3, 15)
          /\ r.customer_id = 1
    /\ Len(invoices) = 1

\* the rows of the customers table that carry the name
RowsNamed(rows, name) == {i \in 1..Len(rows) : rows[i].name = name}

OneRowPerName(rows) ==
    \A i, j \in 1..Len(rows) : rows[i].name = rows[j].name => i = j

\* the name and address upsert is called with: its arguments, or what
\* import_from_json makes of the document
UpsertedName ==
    IF call.op = "Customer.upsert" THEN call.name
    ELSE GetText(Get(call.json_data, ClientKey), NameKey)

UpsertedAddress ==
    IF call.op = "Customer.upsert" THEN call.address
    ELSE GetText(Get(call.json_data, ClientKey), AddressKey)

\* the call in progress reaches Customer.upsert
ReachesUpsert ==
    \/ Handles({"Customer.upsert"})
    \/ /\ Handles({"Customer.import_from_json"})
       /\ ClientKey \in DOMAIN call.json_data.m
       /\ call.json_data.m[ClientKey].t = "object"

(***************************************************************************)
(* C28: the store starts without customers, and every step other than      *)
(* Customer.create takes a table with at most one row per name to a table  *)
(* with at most one row per name, so a history of upsert and               *)
(* import_from_json never holds two rows of one name.  Customer.create     *)
(* appends a row whatever the table holds, so a second create of a name    *)
(* leaves two rows of it; Customer.get_by_name then returns one of the     *)
(* rows of the name, and upsert sets the address of exactly one of them,   *)
(* returns its id, and leaves every other row as it was.                   *)
(***************************************************************************)
UpsertKeepsOneRowPerName ==
    /\ [](Len(customers) = 0 => OneRowPerName(customers))
    /\ [][/\ (OneRowPerName(customers) /\ ~Handles({"Customer.create"}))
             => OneRowPerName(customers')
          /\ Handles({"Customer.create"}) =>
                /\ Len(customers') = Len(customers) + 1
                /\ customers'[Len(customers')].name = call.name
                /\ SubSeq(customers', 1, Len(customers)) = customers
                /\ out'.ok
                /\ \A i \in 1..Len(customers) : customers[i].id # out'.val
          /\ (Handles({"Customer.get_by_name"})
                /\ RowsNamed(customers, call.name) # {}) =>
                /\ \E i \in RowsNamed(customers, call.name) :
                      out'.val = customers[i]
                /\ StoreUnchanged
          /\ (ReachesUpsert /\ RowsNamed(customers, UpsertedName) # {}) =>
                \E i \in RowsNamed(customers, UpsertedName) :
                   /\ customers' = [customers EXCEPT
                                       ![i].address = UpsertedAddress]
                   /\ out'.ok /\ out'.val = customers[i].id
          /\ (ReachesUpsert /\ RowsNamed(customers, UpsertedName) = {}) =>
                /\ Len(customers') = Len(customers) + 1
                /\ customers'[Len(customers')].name = UpsertedName]_vars

\* two rows named Acme Co from two calls of create, and an upsert of the
\* name that gave one of them a new address and left the other
TwoRowsOneUpdatedWitness ==
    /\ pc = "returned" /\ call.op = "Customer.upsert"
    /\ call.name = "Acme Co" /\ call.address = "2 Side St"
    /\ Len(customers) = 2
    /\ customers[1].name = "Acme Co" /\ customers[2].name = "Acme Co"
    /\ customers[1].address = "2 Side St"
    /\ customers[2].address = "1 Main St"
    /\ out.val = customers[1].id

\* both processes looked the same name up and found no row of it
BothFoundNoRow ==
    /\ \A p \in Processes : upserts[p].at \in {"insert", "done"}
    /\ \A p \in Processes : upserts[p].customer.id = 0
    /\ upserts[1].name = upserts[2].name

(***************************************************************************)
(* C29: upsert is a lookup followed by a separate write.  When two         *)
(* processes run upsert with the same new name and both lookups come       *)
(* before either insert, each of them goes on to insert: none of them      *)
(* looks again or updates, each insert appends a row of the name with an   *)
(* id no other row has, and once both are done two rows carry the name and *)
(* the two calls returned different ids.                                   *)
(***************************************************************************)
RacingUpsertsBothInsert ==
    /\ [](BothFoundNoRow =>
            /\ \A p \in Processes :
                  upserts[p].at = "done" =>
                     \E i \in RowsNamed(customers, upserts[p].name) :
                        customers[i].id = upserts[p].id
            /\ (\A p \in Processes : upserts[p].at = "done") =>
                  /\ upserts[1].id # upserts[2].id
                  /\ Cardinality(RowsNamed(customers, upserts[1].name)) >= 2)
    /\ [][\A p \in Processes :
            (BothFoundNoRow /\ upserts[p].at = "insert"
                /\ upserts'[p] # upserts[p])
            => /\ upserts'[p].at = "done"
               /\ Len(customers') = Len(customers) + 1
               /\ SubSeq(customers', 1, Len(customers)) = customers
               /\ customers'[Len(customers')].name = upserts[p].name
               /\ customers'[Len(customers')].id = upserts'[p].id
               /\ \A i \in 1..Len(customers) :
                     customers[i].id # upserts'[p].id]_vars

\* both processes upserted Acme Co into the empty table: two rows of the
\* name, ids 1 and 2
TwoInsertsWitness ==
    /\ BothFoundNoRow
    /\ \A p \in Processes : upserts[p].at = "done" /\ upserts[p].name = "Acme Co"
    /\ Len(customers) = 2
    /\ customers[1].name = "Acme Co" /\ customers[2].name = "Acme Co"
    /\ {upserts[1].id, upserts[2].id} = {1, 2}

\* the path init_db was called with, in the step that is a call of it
InitDbPath == calls'[Len(calls')].path

(***************************************************************************)
(* C30: init_db(p2) with a connection cached records p2 as the path and    *)
(* leaves the cache and every connection object as they were, the cached   *)
(* one open and on its own path p1; when the schema script is run, it is   *)
(* run on the database of p1.  get_db_connection returns the cached        *)
(* connection as long as one is cached, and only close_db and reset_db     *)
(* take a connection out of the cache.  init_db(p) opens a connection only *)
(* when none is cached, and then that connection is on p and is cached.    *)
(***************************************************************************)
InitDbKeepsCachedConnection ==
    [][/\ (CallOf({"init_db"}) /\ db_connection # NoConnection) =>
            /\ db_path' = InitDbPath
            /\ db_connection' = db_connection
            /\ connections' = connections
            /\ connections'[db_connection'].open
            /\ initialised' \subseteq
                  initialised \cup {connections[db_connection].path}
            /\ calls'[Len(calls')].out.ok =>
                  connections[db_connection].path \in initialised'
       /\ (CallOf({"get_db_connection"}) /\ db_connection # NoConnection) =>
            /\ calls'[Len(calls')].out.val = db_connection
            /\ db_connection' = db_connection
            /\ connections' = connections
       /\ (db_connection # NoConnection /\ db_connection' # db_connection) =>
            /\ CallOf({"close_db", "reset_db"})
            /\ db_connection' = NoConnection
       /\ CallOf({"init_db"}) =>
            /\ Len(connections') # Len(connections) <=> db_connection = NoConnection
            /\ db_connection = NoConnection =>
                  /\ db_path' = InitDbPath
                  /\ db_connection' = Len(connections) + 1
                  /\ connections' = Append(connections,
                                           [path |-> InitDbPath, open |-> TRUE])
                  /\ initialised' \subseteq initialised \cup {InitDbPath}
                  /\ calls'[Len(calls')].out.ok => InitDbPath \in initialised']_vars

\* a connection cached on invoices.db, init_db("test.db") with the schema
\* script run, get_db_connection: the connection on invoices.db again, the
\* path recorded is test.db and the schema went to invoices.db
InitDbOnOtherPathWitness ==
    /\ Len(calls) = 3
    /\ calls[1].op = "get_db_connection"
    /\ calls[2].op = "init_db" /\ calls[2].path = "test.db" /\ calls[2].out.ok
    /\ calls[3].op = "get_db_connection"
    /\ calls[3].out.val = calls[1].out.val
    /\ connections = <<[path |-> "invoices.db", open |-> TRUE]>>
    /\ db_path = "test.db"
    /\ initialised = {"invoices.db"}

====
